---- MODULE Spec2Model ----
(***************************************************************************)
(* Q-guard: pay-per-call gateway.  Model of the x402 payment gate          *)
(* (src/middleware/x402.rs), the error responses (src/error.rs), the       *)
(* route wiring (src/main.rs), the reputation oracle                       *)
(* (src/services/reputation.rs) and the paid handlers (src/handlers).      *)
(***************************************************************************)
EXTENDS Integers, Sequences, FiniteSets, TLC

\* ------------------------------------------------------------------------
\* Bounds of the model
\* ------------------------------------------------------------------------

\* longest log list of a receipt that is enumerated
MaxLogs == 2

\* ------------------------------------------------------------------------
\* Addresses, hashes, topics
\* ------------------------------------------------------------------------

\* An address is a pair of its printed ends and the bytes in between:
\* Display of an Address shows only the ends ("0x1111...1111").
Addr(e, m) == [ends |-> e, mid |-> m]

ZeroAddress == Addr("0000", "0")
UsdcAddress == Addr("usdc", "0")
RecipientAddress == Addr("rcpt", "0")
OtherAddress == Addr("othr", "0")
PayerAddress == Addr("payr", "0")
TokenBAddress == Addr("tokb", "0")

\* Option<T>
None == [tag |-> "none"]
Some(v) == [tag |-> "some", val |-> v]

\* topic0 of Transfer(address,address,uint256) and of another event
TransferTopic == "ddf252ad"
ApprovalTopic == "8c5be1e5"

\* Address::from(H256): the low 20 bytes of a 32-byte topic
AddressFromTopic(t) == t.addr

\* a 32-byte topic holding an address in its low 20 bytes
AddrTopic(a) == [pad |-> 0, addr |-> a]

\* ------------------------------------------------------------------------
\* U256 amounts.  A U256 is modelled by its low 64-bit word `lo` and by
\* `hi`, which is nonzero when any higher word is nonzero.  Log data is a
\* big-endian sequence of 64-bit words (at most 4 words = 32 bytes).
\* ------------------------------------------------------------------------

U256(h, l) == [hi |-> h, lo |-> l]

RECURSIVE HighWords(_)
HighWords(ws) ==
    IF Len(ws) <= 1 THEN 0
    ELSE IF Head(ws) # 0 THEN 1 ELSE HighWords(Tail(ws))

\* U256::from_big_endian(&log.data): the last word is the least significant
U256_from_big_endian(data) ==
    IF Len(data) = 0 THEN U256(0, 0)
    ELSE U256(HighWords(data), data[Len(data)])

\* U256::as_u64 panics when the value does not fit in 64 bits
as_u64_fits(u) == u.hi = 0

\* ------------------------------------------------------------------------
\* parse_usd_to_cents: the configured USD string is parsed as an f64,
\* multiplied by 100.0 and truncated to u64.
\* A USD string is modelled as [sym, whole, frac, ok]: the text
\* "<sym><whole>.<frac as two digits>"; ok = FALSE is a text that does not
\* parse as a number.
\* ------------------------------------------------------------------------

Usd(w, f) == [sym |-> "", whole |-> w, frac |-> f, ok |-> TRUE]

\* the hundredths the decimal text denotes (after trim and '$' removal)
Hundredths(usd) == usd.whole * 100 + usd.frac

RECURSIVE Pow2Mod(_, _)
Pow2Mod(k, m) == IF k = 0 THEN 1 % m ELSE (2 * Pow2Mod(k - 1, m)) % m

RECURSIVE FloorLog2Ratio(_, _)
\* floor(log2(n / d)) for n, d > 0
FloorLog2Ratio(n, d) ==
    IF n >= d
    THEN (IF n >= 2 * d THEN 1 + FloorLog2Ratio(n, 2 * d) ELSE 0)
    ELSE FloorLog2Ratio(2 * n, d) - 1

IsPow2(c) == \E j \in 0..30 : c = 2 ^ j

\* trunc(fl(fl(c / 100) * 100.0)) in IEEE-754 binary64, round to nearest even.
\* fl(c/100) = (c * 2^k - r) / (100 * 2^k) when the significand rounds down,
\* with k = 52 - floor(log2(c/100)) and r = (c * 2^k) mod 100, so the exact
\* product is c - r / 2^k; it rounds to a double below c exactly when r / 2^k
\* exceeds half the spacing of the doubles just below c.
F64TimesHundredTrunc(c) ==
    IF c = 0 THEN 0
    ELSE LET i == FloorLog2Ratio(c, 100)
             j == FloorLog2Ratio(c, 1)
             k == 52 - i
             r == (c * Pow2Mod(k, 100)) % 100
             half == IF IsPow2(c) THEN 2 ^ (j - i - 2) ELSE 2 ^ (j - i - 1)
         IN  IF r = 0 \/ r > 50 THEN c
             ELSE IF r <= half THEN c
             ELSE c - 1

\* Result<u64, ConfigError>
parse_usd_to_cents(usd) ==
    IF ~usd.ok THEN [ok |-> FALSE, cents |-> 0]
    ELSE [ok |-> TRUE, cents |-> F64TimesHundredTrunc(Hundredths(usd))]

\* ------------------------------------------------------------------------
\* X402Middleware: the gate's configuration (the struct's fields)
\* ------------------------------------------------------------------------

X402Middleware_new(facilitator_url, recipient_address, usdc_address, usd) ==
    [facilitator_url |-> facilitator_url,
     recipient_address |-> recipient_address,
     usdc_address |-> usdc_address,
     expected_amount_usd |-> usd]

\* Result<PaymentVerification, QGuardError>, or a panic of the task.
\* tag "ok": a PaymentVerification (valid or not); tag "err": a QGuardError
\* of the given kind; tag "panic": the task panicked.
Verification(v, why, who, amt) ==
    [tag |-> "ok", kind |-> "", valid |-> v, reason |-> why,
     payer |-> who, amount |-> amt]
GateError(k, why) ==
    [tag |-> "err", kind |-> k, valid |-> FALSE, reason |-> why,
     payer |-> ZeroAddress, amount |-> U256(0, 0)]
Panic(why) ==
    [tag |-> "panic", kind |-> "", valid |-> FALSE, reason |-> why,
     payer |-> ZeroAddress, amount |-> U256(0, 0)]

\* the log is a Transfer event with at least the two indexed addresses
IsTransferLog(log) ==
    /\ Len(log.topics) >= 1
    /\ log.topics[1] = TransferTopic
    /\ Len(log.topics) >= 3

RECURSIVE FirstTransferIndex(_, _)
\* index of the first log at or after i that the loop returns on, 0 if none
FirstTransferIndex(logs, i) ==
    IF i > Len(logs) THEN 0
    ELSE IF IsTransferLog(logs[i]) THEN i
    ELSE FirstTransferIndex(logs, i + 1)

\* Result<USDCTransfer, InvalidPaymentProof>
parse_usdc_transfer(receipt) ==
    LET i == FirstTransferIndex(receipt.logs, 1)
    IN  IF i = 0
        THEN [found |-> FALSE, from |-> ZeroAddress, to |-> ZeroAddress,
              amount |-> U256(0, 0)]
        ELSE [found |-> TRUE,
              from |-> AddressFromTopic(receipt.logs[i].topics[2]),
              to |-> AddressFromTopic(receipt.logs[i].topics[3]),
              amount |-> U256_from_big_endian(receipt.logs[i].data)]

\* actual_amount_cents < expected_amount_cents, with
\* actual_amount_cents = amount.as_u64() / 10_000
InsufficientAmount(lo, expected_cents) == (lo \div 10000) < expected_cents

\* ReceiptStage without the test of the receipt's status
ReceiptStage_ignoreStatus(receiptAns) ==
    IF receiptAns.tag = "err"
    THEN GateError("PaymentVerificationFailed", "RPC error")
    ELSE IF receiptAns.tag = "none"
    THEN GateError("PaymentVerificationFailed", "Transaction not found")
    ELSE [tag |-> "go", kind |-> "", valid |-> FALSE, reason |-> "",
          payer |-> ZeroAddress, amount |-> U256(0, 0)]

\* verify_transaction up to and including the receipt status check.
\* receiptAns is the provider's answer: tag "err", "none" or "some".
\* The result has tag "go" when verification continues with get_transaction.
ReceiptStage(receiptAns) ==
    IF receiptAns.tag = "err"
    THEN GateError("PaymentVerificationFailed", "RPC error")
    ELSE IF receiptAns.tag = "none"
    THEN GateError("PaymentVerificationFailed", "Transaction not found")
    ELSE IF receiptAns.val.status # Some(1)
    THEN Verification(FALSE, "Transaction failed", ZeroAddress, U256(0, 0))
    ELSE [tag |-> "go", kind |-> "", valid |-> FALSE, reason |-> "",
          payer |-> ZeroAddress, amount |-> U256(0, 0)]

\* TransactionStage with the recipient tested before the target
TransactionStage_recipientFirst(self, receipt, txAns) ==
    IF txAns.tag = "err"
    THEN GateError("PaymentVerificationFailed", "RPC error")
    ELSE IF txAns.tag = "none"
    THEN GateError("PaymentVerificationFailed", "Transaction not found")
    ELSE LET transfer == parse_usdc_transfer(receipt)
             expected == parse_usd_to_cents(self.expected_amount_usd)
         IN  IF transfer.found /\ transfer.to # self.recipient_address
             THEN Verification(FALSE, "Payment to wrong address",
                               transfer.from, transfer.amount)
             ELSE IF txAns.val.to # Some(self.usdc_address)
             THEN Verification(FALSE, "Transaction not to USDC contract",
                               txAns.val.from, U256(0, 0))
             ELSE IF ~transfer.found
             THEN GateError("InvalidPaymentProof", "No USDC transfer found in transaction")
             ELSE IF ~expected.ok
             THEN GateError("ConfigError", "Invalid USD amount")
             ELSE IF ~as_u64_fits(transfer.amount)
             THEN Panic("Integer overflow when casting to u64")
             ELSE IF InsufficientAmount(transfer.amount.lo, expected.cents)
             THEN Verification(FALSE, "Insufficient payment",
                               transfer.from, transfer.amount)
             ELSE Verification(TRUE, "Payment verified",
                               transfer.from, transfer.amount)

\* verify_transaction from the answer to get_transaction to its end
TransactionStage(self, receipt, txAns) ==
    IF txAns.tag = "err"
    THEN GateError("PaymentVerificationFailed", "RPC error")
    ELSE IF txAns.tag = "none"
    THEN GateError("PaymentVerificationFailed", "Transaction not found")
    ELSE IF txAns.val.to # Some(self.usdc_address)
    THEN Verification(FALSE, "Transaction not to USDC contract",
                      txAns.val.from, U256(0, 0))
    ELSE LET transfer == parse_usdc_transfer(receipt)
             expected == parse_usd_to_cents(self.expected_amount_usd)
         IN  IF ~transfer.found
             THEN GateError("InvalidPaymentProof", "No USDC transfer found in transaction")
             ELSE IF transfer.to # self.recipient_address
             THEN Verification(FALSE, "Payment to wrong address",
                               transfer.from, transfer.amount)
             ELSE IF ~expected.ok
             THEN GateError("ConfigError", "Invalid USD amount")
             ELSE IF ~as_u64_fits(transfer.amount)
             THEN Panic("Integer overflow when casting to u64")
             ELSE IF InsufficientAmount(transfer.amount.lo, expected.cents)
             THEN Verification(FALSE, "Insufficient payment",
                               transfer.from, transfer.amount)
             ELSE Verification(TRUE, "Payment verified",
                               transfer.from, transfer.amount)

\* verify_transaction as a function of the provider's two answers
verify_transaction(self, receiptAns, txAns) ==
    LET first == ReceiptStage(receiptAns)
    IN  IF first.tag # "go" THEN first
        ELSE TransactionStage(self, receiptAns.val, txAns)

\* ValidOrError without the validity test
ValidOrError_keepInvalid(v) == v

\* the `if !verification.valid` of verify_payment_header: an invalid
\* verification becomes the error PaymentVerificationFailed(reason)
ValidOrError(v) ==
    IF v.tag = "ok" /\ ~v.valid
    THEN [v EXCEPT !.tag = "err", !.kind = "PaymentVerificationFailed"]
    ELSE v

\* ------------------------------------------------------------------------
\* Chain data the provider can answer with
\* ------------------------------------------------------------------------

Log(a, ts, d) == [address |-> a, topics |-> ts, data |-> d]

\* data fields: 32 bytes as four big-endian 64-bit words, and an empty one
DataSet ==
    { <<>>, <<0, 0, 0, 9999>>, <<0, 0, 0, 10000>>, <<0, 0, 0, 100000>>,
      <<0, 0, 0, 289999>>, <<0, 0, 0, 290000>>, <<0, 0, 1, 0>> }

TransferLog(token, from, to, d) ==
    Log(token, <<TransferTopic, AddrTopic(from), AddrTopic(to)>>, d)

LogAlphabet ==
    { TransferLog(UsdcAddress, PayerAddress, to, d) :
          to \in {RecipientAddress, OtherAddress}, d \in DataSet }
    \cup { Log(UsdcAddress,
               <<ApprovalTopic, AddrTopic(PayerAddress), AddrTopic(RecipientAddress)>>,
               <<0, 0, 0, 290000>>),
           Log(UsdcAddress, <<TransferTopic, AddrTopic(PayerAddress)>>,
               <<0, 0, 0, 290000>>),
           Log(UsdcAddress,
               <<TransferTopic, AddrTopic(PayerAddress), AddrTopic(OtherAddress),
                 AddrTopic(ZeroAddress)>>, <<>>),
           TransferLog(TokenBAddress, PayerAddress, RecipientAddress,
                       <<0, 0, 0, 290000>>) }

SeqsUpTo(S, n) == UNION { [1..k -> S] : k \in 0..n }

Receipt(st, ls) == [status |-> st, logs |-> ls]
Transaction(f, t) == [from |-> f, to |-> t]

\* answers of get_transaction_receipt and of get_transaction
RpcErr == [tag |-> "err"]
ReceiptAnswers ==
    { RpcErr, None }
    \cup { Some(Receipt(st, ls)) :
               st \in {Some(1), Some(0), None}, ls \in SeqsUpTo(LogAlphabet, MaxLogs) }
TransactionAnswers ==
    { RpcErr, None }
    \cup { Some(Transaction(PayerAddress, t)) :
               t \in {Some(UsdcAddress), Some(OtherAddress), None} }

\* USD strings a gate is constructed with: "0.01" and "0.10" as in main,
\* "0.29", and a text that is not a number
BadUsd == [sym |-> "", whole |-> 0, frac |-> 0, ok |-> FALSE]
UsdInputs == { Usd(0, 1), Usd(0, 10), Usd(0, 29), BadUsd }

\* ------------------------------------------------------------------------
\* Request headers
\* ------------------------------------------------------------------------

\* The X-Payment header: absent, bytes that are not visible ASCII, or a text
\* made of `ox` copies of "0x" followed by a body.  A body "h1" or "h2" is
\* the 64 hex digits of that transaction hash, "zz" is anything else.
TxHashes == {"h1", "h2"}
Header(k, n, b) == [kind |-> k, ox |-> n, body |-> b]
HeaderSet ==
    { Header("absent", 0, ""), Header("nonascii", 0, ""), Header("text", 1, "zz"),
      Header("text", 1, "h1"), Header("text", 0, "h1"), Header("text", 2, "h1"),
      Header("text", 1, "h2") }

\* the header the gate reads the proof from
XPaymentHeader == "X-Payment"

\* headers().get("X-Payment").and_then(|h| h.to_str().ok())
payment_header(h) == IF h.kind = "text" THEN Some(h) ELSE None

\* payment_proof.trim_start_matches("0x"): every leading "0x" is removed
trim_start_matches_0x(text) == [text EXCEPT !.ox = 0]

\* H256::from_str: exactly 64 hex digits, an optional single "0x" before them
H256_from_str(text) ==
    IF text.ox <= 1 /\ text.body \in TxHashes THEN Some(text.body) ELSE None

\* ------------------------------------------------------------------------
\* Error responses (error.rs)
\* ------------------------------------------------------------------------

\* the text of an address as it stands in an environment variable
AddrText(a, prefixed) == [addr |-> a, ox |-> prefixed]

\* Address::from_str accepts the 40 hex digits with or without "0x"
Address_from_str(text) == text.addr

NoInstructions == [present |-> FALSE, amount |-> BadUsd,
                   recipient |-> AddrText(ZeroAddress, TRUE),
                   facilitator |-> "", header |-> ""]

\* create_payment_instructions with the amount of the first route written in
create_payment_instructions_fixedAmount(amount, environ) ==
    [present |-> TRUE,
     amount |-> Usd(0, 1),
     recipient |-> IF environ.RECIPIENT_ADDRESS.tag = "some"
                   THEN environ.RECIPIENT_ADDRESS.val
                   ELSE AddrText(ZeroAddress, TRUE),
     facilitator |-> IF environ.FACILITATOR_URL.tag = "some"
                     THEN environ.FACILITATOR_URL.val
                     ELSE "https://x402-facilitator.example.com",
     header |-> "X-Payment"]

\* create_payment_instructions: recipient and facilitator are read from the
\* process environment when the response is built
create_payment_instructions(amount, environ) ==
    [present |-> TRUE,
     amount |-> amount,
     recipient |-> IF environ.RECIPIENT_ADDRESS.tag = "some"
                   THEN environ.RECIPIENT_ADDRESS.val
                   ELSE AddrText(ZeroAddress, TRUE),
     facilitator |-> IF environ.FACILITATOR_URL.tag = "some"
                     THEN environ.FACILITATOR_URL.val
                     ELSE "https://x402-facilitator.example.com",
     header |-> "X-Payment"]

Response(st, code, instr) ==
    [status |-> st, error_code |-> code, payment_instructions |-> instr]

NoResponse == Response(0, "", NoInstructions)

\* impl IntoResponse for QGuardError; err.amount carries the String of
\* PaymentRequired
into_response(err, amount, environ) ==
    IF err.kind = "PaymentRequired"
    THEN Response(402, "PAYMENT_REQUIRED", create_payment_instructions(amount, environ))
    ELSE IF err.kind = "PaymentVerificationFailed"
    THEN Response(402, "PAYMENT_VERIFICATION_FAILED", NoInstructions)
    ELSE IF err.kind = "InvalidPaymentProof"
    THEN Response(400, "INVALID_PAYMENT_PROOF", NoInstructions)
    ELSE IF err.kind = "InsufficientReputation"
    THEN Response(403, "INSUFFICIENT_REPUTATION", NoInstructions)
    ELSE IF err.kind = "RateLimitExceeded"
    THEN Response(429, "RATE_LIMIT_EXCEEDED", NoInstructions)
    ELSE IF err.kind \in {"RpcError", "ContractError"}
    THEN Response(502, "UPSTREAM_ERROR", NoInstructions)
    ELSE Response(500, "INTERNAL_ERROR", NoInstructions)

\* ------------------------------------------------------------------------
\* ReputationService (services/reputation.rs)
\* ------------------------------------------------------------------------

Agent1111 == Addr("1111", "1")
Agent2222 == Addr("2222", "2")
Agent3333 == Addr("3333", "3")

\* the mock table filled in by ReputationService::new
mock_reputations(agent) ==
    IF agent = Agent1111 THEN Some(100)
    ELSE IF agent = Agent2222 THEN Some(500)
    ELSE IF agent = Agent3333 THEN Some(1000)
    ELSE None

DefaultReputation == 250

\* format!("reputation:{}", agent): Display of an Address prints its ends only
ReputationKey(agent) == agent.ends

\* f64::MAX, the price of a denied caller; prices are in millionths of a
\* dollar (0.01 is 10000), so that 0.8 and 0.5 of a base price are exact
F64Max == 2147483647

\* calculate_price with the standard tier ending below 500
calculate_price_openEdge(base_price, reputation) ==
    IF reputation <= 99 THEN F64Max
    ELSE IF reputation < 500 THEN base_price
    ELSE IF reputation <= 1000 THEN (base_price * 8) \div 10
    ELSE (base_price * 5) \div 10

\* calculate_price with the two discounts exchanged
calculate_price_swapped(base_price, reputation) ==
    IF reputation <= 99 THEN F64Max
    ELSE IF reputation <= 500 THEN base_price
    ELSE IF reputation <= 1000 THEN (base_price * 5) \div 10
    ELSE (base_price * 8) \div 10

calculate_price(base_price, reputation) ==
    IF reputation <= 99 THEN F64Max
    ELSE IF reputation <= 500 THEN base_price
    ELSE IF reputation <= 1000 THEN (base_price * 8) \div 10
    ELSE (base_price * 5) \div 10

\* ------------------------------------------------------------------------
\* State
\* ------------------------------------------------------------------------

VARIABLES
    environ,          \* process environment read by Config::from_env and error.rs
    x402,             \* the gate of each protected route (x402_gas, x402_mev)
    chain,            \* what the payment chain holds for each transaction hash
    req,              \* the requests in flight, one record per connection
    acceptedLog,      \* history: <<route, hash>> of every accepted verification
    registry_address, \* ReputationService.registry_address
    memory,           \* CacheService.memory, reputation keys
    redis_conn,       \* CacheService.redis is Some
    redis,            \* content of the durable tier, reputation keys
    vt,               \* one call of verify_transaction: its inputs and its result
    hung,             \* requests whose pending outbound call is never answered
    pq,               \* one price query: base price, two scores, the two quotes
    tc,               \* the tiered cache with its clock, for the timed specification
    mp,               \* MempoolService: the buffer, its lock, its writer, a reader
    an                \* Analytics: payments_total, the record_payment calls, the records

gateVars == <<environ, x402, chain, req, acceptedLog, registry_address,
              memory, redis_conn, redis, hung>>
vars == <<environ, x402, chain, req, acceptedLog, registry_address,
          memory, redis_conn, redis, vt, hung, pq, tc, mp, an>>

NoOutcome == [tag |-> "pending", kind |-> "", valid |-> FALSE, reason |-> "",
              payer |-> ZeroAddress, amount |-> U256(0, 0)]

\* ------------------------------------------------------------------------
\* The gateway after main has built it
\* ------------------------------------------------------------------------

Requests == {"r1", "r2"}
Routes == {"gas", "mev"}

\* the price string main gives the gate of each route
RoutePrice(route) == IF route = "gas" THEN Usd(0, 1) ELSE Usd(0, 10)

\* the base price the route's handler starts from, in millionths of a dollar
HandlerBasePrice(route) == IF route = "gas" THEN 10000 ELSE 100000

NoTx == [receipt |-> None, tx |-> None]
OnChain(st, target, ls) ==
    [receipt |-> Some(Receipt(st, ls)),
     tx |-> Some(Transaction(PayerAddress, target))]

PayTo(to, d) == TransferLog(UsdcAddress, PayerAddress, to, d)

\* what the chain can hold for the hash h1
ChainCases ==
    { NoTx,
      OnChain(Some(1), Some(UsdcAddress), <<PayTo(RecipientAddress, <<0, 0, 0, 10000>>)>>),
      OnChain(Some(1), Some(UsdcAddress), <<PayTo(RecipientAddress, <<0, 0, 0, 100000>>)>>),
      OnChain(Some(1), Some(UsdcAddress), <<PayTo(RecipientAddress, <<0, 0, 0, 9999>>)>>),
      OnChain(Some(0), Some(UsdcAddress), <<PayTo(RecipientAddress, <<0, 0, 0, 10000>>)>>),
      OnChain(Some(1), Some(OtherAddress), <<PayTo(OtherAddress, <<0, 0, 0, 10000>>)>>),
      OnChain(Some(1), Some(UsdcAddress), <<>>),
      OnChain(Some(1), Some(UsdcAddress), <<PayTo(OtherAddress, <<0, 0, 0, 10000>>)>>),
      OnChain(Some(1), Some(UsdcAddress), <<PayTo(RecipientAddress, <<0, 0, 1, 0>>)>>),
      OnChain(Some(0), Some(OtherAddress), <<PayTo(OtherAddress, <<0, 0, 0, 9999>>)>>),
      OnChain(Some(1), Some(UsdcAddress),
              <<TransferLog(TokenBAddress, PayerAddress, RecipientAddress,
                            <<0, 0, 0, 290000>>)>>) }

Agents == {Agent3333}
AgentKeys == { ReputationKey(a) : a \in Agents }

\* a score the on-chain registry can answer with
RegistryScores == {50}

\* the body report_to_facilitator posts to <facilitator_url>/settle
SettlementRequest(tx_hash, verification) ==
    [tx_hash |-> tx_hash, payer |-> verification.payer,
     amount |-> verification.amount, verified |-> verification.valid]

NoReport == [tx_hash |-> "", payer |-> ZeroAddress, amount |-> U256(0, 0),
             verified |-> FALSE]

IdleRequest ==
    [pc |-> "idle", route |-> "gas", header |-> Header("absent", 0, ""),
     tx_hash |-> "", out |-> NoOutcome, chainCalls |-> 0, reports |-> 0,
     report |-> NoReport,
     facilitator |-> "", agent |-> None, score |-> -1, actual_price |-> 0,
     reply |-> None, payment_key |-> 0,
     handler |-> FALSE, response |-> NoResponse]

\* Config::from_env requires RECIPIENT_ADDRESS and FACILITATOR_URL, and main
\* builds both gates from the addresses it parsed
InitGate ==
    /\ environ = [RECIPIENT_ADDRESS |-> Some(AddrText(RecipientAddress, TRUE)),
                  FACILITATOR_URL |-> Some("facilitator")]
    /\ x402 = [route \in Routes |->
                 X402Middleware_new(environ.FACILITATOR_URL.val,
                                    Address_from_str(environ.RECIPIENT_ADDRESS.val),
                                    UsdcAddress, RoutePrice(route))]
    /\ chain \in [TxHashes -> ChainCases]
    /\ chain["h2"] = NoTx
    /\ req = [r \in Requests |-> IdleRequest]
    /\ acceptedLog = {}
    /\ registry_address \in {None, Some("registry")}
    /\ memory = [k \in AgentKeys |-> None]
    /\ redis_conn \in BOOLEAN
    /\ redis = [k \in AgentKeys |-> None]
    /\ hung = {}

\* the gateway built and serving nothing, whatever the registry setting
GateServingNothing ==
    /\ environ = [RECIPIENT_ADDRESS |-> Some(AddrText(RecipientAddress, TRUE)),
                  FACILITATOR_URL |-> Some("facilitator")]
    /\ x402 = [route \in Routes |->
                 X402Middleware_new("facilitator", RecipientAddress,
                                    UsdcAddress, RoutePrice(route))]
    /\ chain = [h \in TxHashes |-> NoTx]
    /\ req = [r \in Requests |-> IdleRequest]
    /\ acceptedLog = {}
    /\ memory = [k \in AgentKeys |-> None]
    /\ redis_conn = FALSE
    /\ redis = [k \in AgentKeys |-> None]
    /\ hung = {}

\* the gateway as SpecVerify holds it: built as main builds it (no
\* registry), and serving nothing
GateQuiet == GateServingNothing /\ registry_address = None

\* one verification, one price query and the timed cache as the
\* specifications that do not use them hold them
VerifyQuiet ==
    vt = [self |-> X402Middleware_new("facilitator", RecipientAddress, UsdcAddress, Usd(0, 1)),
          receiptAns |-> None, txAns |-> None, out |-> NoOutcome]
PriceQuiet == pq = [base_price |-> 0, s1 |-> 0, s2 |-> 0, p1 |-> -1, p2 |-> -1]
CacheQuiet == tc = [now |-> 0]
MempoolQuiet == mp = [pushed |-> 0]

\* Analytics::new: the counter at 0; memory and redis are the numbers the
\* keys of the payment records end in, as the in-process tier and the
\* durable tier of the cache hold them
Analytics_new == [payments_total |-> 0, memory |-> {}, redis |-> {}]
AnalyticsQuiet == an = Analytics_new

\* ------------------------------------------------------------------------
\* SpecVerify: verify_transaction followed by the validity test of
\* verify_payment_header, on every enumerated pair of provider answers
\* ------------------------------------------------------------------------

InitVerify ==
    /\ MempoolQuiet
    /\ AnalyticsQuiet
    /\ vt \in [self : { X402Middleware_new("facilitator", RecipientAddress, UsdcAddress, u) :
                            u \in UsdInputs },
               receiptAns : ReceiptAnswers,
               txAns : TransactionAnswers,
               out : {NoOutcome}]
    /\ GateQuiet
    /\ PriceQuiet
    /\ CacheQuiet

Verify ==
    /\ vt.out.tag = "pending"
    /\ vt' = [vt EXCEPT !.out =
                 ValidOrError(verify_transaction(vt.self, vt.receiptAns, vt.txAns))]
    /\ UNCHANGED <<gateVars, pq, tc, mp, an>>

NextVerify == Verify

SpecVerify == InitVerify /\ [][NextVerify]_vars

\* ------------------------------------------------------------------------
\* TieredCache and ReputationService::get_reputation
\* ------------------------------------------------------------------------

\* CacheService::get: the in-process tier first, then the durable tier when
\* it is connected (redisOk: the call to it succeeds), refilling the
\* in-process tier on a durable hit
CacheService_get(key, redisOk) ==
    IF memory[key].tag = "some"
    THEN [val |-> memory[key], memory |-> memory]
    ELSE IF redis_conn /\ redisOk /\ redis[key].tag = "some"
    THEN [val |-> redis[key], memory |-> [memory EXCEPT ![key] = redis[key]]]
    ELSE [val |-> None, memory |-> memory]

\* what the call to the registry contract returns: an error, or a uint256,
\* which need not fit in 64 bits
RegistryAnswers ==
    {RpcErr} \cup { Some(U256(0, s)) : s \in RegistryScores } \cup {Some(U256(1, 0))}

\* the score of the source that answered
SourceScore(n) == [result |-> "ok", score |-> n]

\* rep.as_u64() on a uint256 that does not fit in 64 bits: the task panics
SourcePanic == [result |-> "panic", score |-> 0]

\* the score of the mock table, 250 for an identity it does not list
MockScore(agent) ==
    IF mock_reputations(agent).tag = "some"
    THEN mock_reputations(agent).val
    ELSE DefaultReputation

\* the trust-score source: [result, score].  With a registry configured
\* regAns is what its call returns: an error gives the default 250, a
\* uint256 is narrowed by as_u64, which panics when it does not fit.
\* Without a registry the mock table is read.
ReputationSource(agent, regAns) ==
    IF registry_address.tag = "some"
    THEN (IF regAns.tag = "err" THEN SourceScore(DefaultReputation)
          ELSE IF as_u64_fits(regAns.val) THEN SourceScore(regAns.val.lo)
          ELSE SourcePanic)
    ELSE SourceScore(MockScore(agent))

\* get_reputation after a cache miss: [result, score, memory, redis]; the
\* score of the source is set in the cache, over whatever the key holds by
\* then, and returned; a panic leaves the cache as it is
get_reputation_miss(agent, setOk, regAns) ==
    LET key == ReputationKey(agent)
        rep == ReputationSource(agent, regAns)
    IN  IF rep.result = "panic"
        THEN [result |-> "panic", score |-> 0, memory |-> memory, redis |-> redis]
        ELSE [result |-> "ok", score |-> rep.score,
              memory |-> [memory EXCEPT ![key] = Some(rep.score)],
              redis |-> IF redis_conn /\ setOk
                        THEN [redis EXCEPT ![key] = Some(rep.score)]
                        ELSE redis]

\* get_reputation with the cache writes it makes, the cache read, the
\* source and the cache write taken together
get_reputation(agent, getOk, setOk, regAns) ==
    LET key == ReputationKey(agent)
        got == CacheService_get(key, getOk)
    IN  IF got.val.tag = "some"
        THEN [result |-> "ok", score |-> got.val.val,
              memory |-> got.memory, redis |-> redis]
        ELSE get_reputation_miss(agent, setOk, regAns)

\* verify_access: an absent identity is let in whatever the threshold
verify_access(agent, min_reputation, getOk, setOk, regAns) ==
    IF agent.tag = "some"
    THEN LET rep == get_reputation(agent.val, getOk, setOk, regAns)
         IN  [result |-> rep.result,
              allowed |-> rep.result = "ok" /\ rep.score >= min_reputation,
              memory |-> rep.memory, redis |-> rep.redis]
    ELSE [result |-> "ok", allowed |-> TRUE, memory |-> memory, redis |-> redis]

\* ------------------------------------------------------------------------
\* SpecCache: CacheService and ReputationService::get_reputation with time.
\* Times are in seconds.  An operation touches the entry of its key only,
\* so a behaviour follows one key (tc.key) through both tiers.
\* ------------------------------------------------------------------------

MaxTicks == 2

\* how far the clock moves in one step: for a prediction, which the tiers
\* keep for 60 s and 12 s, 30 s; for a score, which they keep for 60 s and
\* an hour, 59 minutes
TimeSteps(key) == IF key = "gas:prediction" THEN {30} ELSE {3540}

\* Cache::builder().time_to_live(Duration::from_secs(60))
MemoryTimeToLive == 60

\* the ttl get_reputation passes to CacheService::set
ReputationTtl == 3600

\* the ttl get_gas_prediction passes to CacheService::set
PredictionTtl == 12

Entry(v, at, ttl) == [tag |-> "some", val |-> v, at |-> at, ttl |-> ttl]

\* an entry is returned until its time to live has passed
Live(e, now) == e.tag = "some" /\ now < e.at + e.ttl

\* an identity absent from the mock table, and one whose printed form
\* (first and last two bytes) is that of 0x3333...3333
AgentUnlisted == Addr("abcd", "9")
AgentTwin == Addr("3333", "7")
CacheAgents == {Agent3333, AgentTwin, AgentUnlisted}

PredictionKey == "gas:prediction"
CacheKeys == { ReputationKey(a) : a \in CacheAgents } \cup {PredictionKey}

\* the counters of one day: record_payment increments the first two by 1
\* (analytics:payments:<date>, analytics:endpoint:<endpoint>:<date>) and
\* get_stats increments the third by 0 (analytics:requests:<date>)
PaymentsCounter == "analytics:payments"
EndpointCounter == "analytics:endpoint"
RequestsCounter == "analytics:requests"
CounterKeys == {PaymentsCounter, EndpointCounter, RequestsCounter}
CounterDelta(key) == IF key = RequestsCounter THEN 0 ELSE 1

\* how far a behaviour follows a counter
MaxCount == 3

\* the calls of one CacheService that a behaviour follows at a time
Tasks == {"t1", "t2"}

\* a GasPrediction, known by the number of its last block and by its
\* confidence: "0.5", "one" (1.0 up to rounding), or "NaN"
GasPrediction(block_number, confidence) ==
    [block_number |-> block_number, confidence |-> confidence]

\* predictions callers hand to CacheService::set
Predictions == {GasPrediction(1, "one"), GasPrediction(2, "NaN")}

\* serde_json::to_string of the value stored under key: a u64 is its
\* decimal text; in a GasPrediction a float that is not finite is written
\* as null
serde_json_to_string(key, value) ==
    IF key = PredictionKey
    THEN [value EXCEPT !.confidence = IF @ = "NaN" THEN "null" ELSE @]
    ELSE value

\* serde_json::from_str into the type read under key: None stands for Err;
\* null is no f64, so a GasPrediction whose confidence is null does not
\* parse
serde_json_from_str(key, cached) ==
    IF key = PredictionKey
    THEN (IF cached.confidence = "null" THEN None ELSE Some(cached))
    ELSE Some(cached)

\* the tier holds a live entry under key that parses as the type read
Readable(tier, key, now) ==
    Live(tier[key], now) /\ serde_json_from_str(key, tier[key].val).tag = "some"

\* CacheService::get connecting to the durable tier when it has no
\* connection
CacheService_get_memory_reconnect(c, key) ==
    IF Readable(c.memory, key, c.now)
    THEN [pc |-> "done", val |-> serde_json_from_str(key, c.memory[key].val)]
    ELSE [pc |-> "redis", val |-> None]

\* CacheService::get up to its await: the in-process tier answers (an
\* entry that does not parse is passed over); on a miss GET is sent when
\* there is a connection (pc "redis"), and without one get returns None
CacheService_get_memory(c, key) ==
    IF Readable(c.memory, key, c.now)
    THEN [pc |-> "done", val |-> serde_json_from_str(key, c.memory[key].val)]
    ELSE IF c.redis_conn
    THEN [pc |-> "redis", val |-> None]
    ELSE [pc |-> "done", val |-> None]

\* what the durable tier answers to GET key at time c.now: the entry it
\* holds, nil, or an error (redisOk FALSE)
redis_get(c, key, redisOk) ==
    IF ~redisOk THEN RpcErr
    ELSE IF Live(c.redis[key], c.now) THEN c.redis[key]
    ELSE None

\* the in-process tier is built with max_capacity(1000): an insert under
\* a key the tier holds replaces the entry; under a new key the entry may
\* not be admitted when the tier is full of other keys (admitted FALSE)
Kept(c, key, admitted) == admitted \/ c.memory[key].tag = "some"

\* whether an insert under the key of the behaviour can be turned away
Admissions(c) == IF c.memory[c.key].tag = "some" THEN {TRUE} ELSE BOOLEAN

\* self.memory.insert(key, text) at time c.now: the entry lives for ttl
memory_insert(c, key, text, ttl, admitted) ==
    IF Kept(c, key, admitted)
    THEN [c.memory EXCEPT ![key] = Entry(text, c.now, ttl)]
    ELSE c.memory

\* CacheService::get leaving the in-process tier as it is on a durable hit
CacheService_get_refill_noRefill(c, key, reply, admitted) ==
    IF reply.tag = "some" /\ serde_json_from_str(key, reply.val).tag = "some"
    THEN [val |-> serde_json_from_str(key, reply.val), memory |-> c.memory]
    ELSE [val |-> None, memory |-> c.memory]

\* CacheService::get resumed with the reply to GET: [val, memory]; a text
\* that parses is inserted in the in-process tier, as it is then, and
\* returned; an error is logged and is a miss like nil and like a text
\* that does not parse
CacheService_get_refill(c, key, reply, admitted) ==
    IF reply.tag = "some" /\ serde_json_from_str(key, reply.val).tag = "some"
    THEN [val |-> serde_json_from_str(key, reply.val),
          memory |-> memory_insert(c, key, reply.val, MemoryTimeToLive, admitted)]
    ELSE [val |-> None, memory |-> c.memory]

\* CacheService::get at time c.now with nothing else running before it
\* returns: [result, val, memory, asked], asked telling whether the durable
\* tier was contacted
CacheService_get_at(c, key, redisOk, admitted) ==
    LET go == CacheService_get_memory(c, key)
        out == CacheService_get_refill(c, key, redis_get(c, key, redisOk), admitted)
    IN  IF go.pc = "done"
        THEN [result |-> "ok", val |-> go.val, memory |-> c.memory, asked |-> FALSE]
        ELSE [result |-> "ok", val |-> out.val, memory |-> out.memory, asked |-> TRUE]

\* CacheService::set with the in-process tier holding entries for the
\* caller's ttl
CacheService_set_memory_callerTtl(c, key, value, ttl_secs, admitted) ==
    memory_insert(c, key, serde_json_to_string(key, value), ttl_secs, admitted)

\* CacheService::set up to its await: the text is inserted in the
\* in-process tier, which keeps its own time to live
CacheService_set_memory(c, key, value, ttl_secs, admitted) ==
    memory_insert(c, key, serde_json_to_string(key, value), MemoryTimeToLive,
                  admitted)

\* CacheService::set handing a failed set_ex to its caller
CacheService_set_ex_strict(c, key, value, ttl_secs, redisOk) ==
    [result |-> IF redisOk THEN "ok" ELSE "err",
     redis |-> IF redisOk
               THEN [c.redis EXCEPT
                       ![key] = Entry(serde_json_to_string(key, value),
                                      c.now, ttl_secs)]
               ELSE c.redis]

\* the SETEX of CacheService::set is served at time c.now and set returns:
\* [result, redis]; a failed set_ex is logged and the result is Ok
CacheService_set_ex(c, key, value, ttl_secs, redisOk) ==
    [result |-> "ok",
     redis |-> IF redisOk
               THEN [c.redis EXCEPT
                       ![key] = Entry(serde_json_to_string(key, value),
                                      c.now, ttl_secs)]
               ELSE c.redis]

\* CacheService::set at time c.now with nothing else running before it
\* returns: [result, memory, redis]
CacheService_set_at(c, key, value, ttl_secs, redisOk, admitted) ==
    LET put == CacheService_set_ex(c, key, value, ttl_secs, redisOk)
    IN  [result |-> IF c.redis_conn THEN put.result ELSE "ok",
         memory |-> CacheService_set_memory(c, key, value, ttl_secs, admitted),
         redis |-> IF c.redis_conn THEN put.redis ELSE c.redis]

\* CacheService::increment without a connection: Ok(delta), nothing is
\* awaited
CacheService_increment_unconnected(delta) ==
    [result |-> "ok", val |-> delta]

\* INCRBY key delta is served on a counter holding count (None: the key
\* does not exist) and increment returns: [result, val, count]; on a
\* failed INCR the delta comes back as the total
CacheService_increment(count, delta, redisOk) ==
    LET old == IF count.tag = "some" THEN count.val ELSE 0
    IN  IF redisOk
        THEN [result |-> "ok", val |-> old + delta, count |-> Some(old + delta)]
        ELSE [result |-> "ok", val |-> delta, count |-> count]

\* CacheService::ping
CacheService_ping(conn, redisOk) ==
    [result |-> "ok", val |-> conn /\ redisOk]

\* where the score of a cache miss comes from
ReputationSourceName(agent, regAns) ==
    IF registry_address.tag = "some"
    THEN (IF regAns.tag = "err" THEN "default" ELSE "registry")
    ELSE (IF mock_reputations(agent).tag = "some" THEN "table" ELSE "default")

\* get_reputation after the cache gave nothing, from the answer of its
\* source (regAns: what the registry call returned when one is configured)
\* up to the await of cache.set: [result, score, src, memory, wrote,
\* registry_calls], registry_calls the calls made to the registry
\* contract; a panic in as_u64 ends the task before cache.set
get_reputation_miss_at(c, agent, regAns, admitted) ==
    LET rep == ReputationSource(agent, regAns)
        kept == rep.result = "ok"
    IN  [result |-> rep.result, score |-> rep.score,
         src |-> ReputationSourceName(agent, regAns),
         memory |-> IF kept
                    THEN CacheService_set_memory(c, ReputationKey(agent), rep.score,
                                                 ReputationTtl, admitted)
                    ELSE c.memory,
         wrote |-> kept,
         registry_calls |-> IF registry_address.tag = "some" THEN 1 ELSE 0]

\* latest_block.saturating_sub(19): the window reaches 19 blocks back
WindowBack == 19

\* fetch_blocks gives up at an error once it holds this many blocks
MinBlocks == 10

saturating_sub(a, b) == IF a >= b THEN a - b ELSE 0

\* fetch_blocks from the i-th number of start..=end on, answers[i] being
\* what get_block returns for start + i - 1: [blocks, calls], blocks the
\* numbers of the blocks kept and calls the get_block calls made
RECURSIVE fetch_blocks_from(_, _, _, _)
fetch_blocks_from(start, answers, i, blocks) ==
    IF i > Len(answers)
    THEN [blocks |-> blocks, calls |-> Len(answers)]
    ELSE IF answers[i] = "ok"
    THEN fetch_blocks_from(start, answers, i + 1, Append(blocks, start + i - 1))
    ELSE IF answers[i] = "none"
    THEN fetch_blocks_from(start, answers, i + 1, blocks)
    ELSE IF Len(blocks) >= MinBlocks
    THEN [blocks |-> blocks, calls |-> i]
    ELSE fetch_blocks_from(start, answers, i + 1, blocks)

fetch_blocks(start, end, answers) ==
    fetch_blocks_from(start, SubSeq(answers, 1, end - start + 1), 1, <<>>)

\* base fee, in gwei, of the blocks of a window (every block carries one)
BaseFees == {0, 30}

\* calculate_confidence for blocks that all carry the base fee mean: with
\* fewer than 2 fees 0.5; otherwise 1 / (1 + std_dev / mean), std_dev
\* being 0: 0 / 0 is NaN when the mean is 0, and clamp keeps NaN
calculate_confidence(blocks, mean) ==
    IF Len(blocks) < 2 THEN "0.5"
    ELSE IF mean = 0 THEN "NaN"
    ELSE "one"

\* calculate_prediction over blocks of base fee base_fee: the weights sum
\* to 1, so the weighted base fee is base_fee
calculate_prediction(blocks, base_fee) ==
    GasPrediction(blocks[Len(blocks)], calculate_confidence(blocks, base_fee))

GasResult(res, k, v, from, mem, red, w, n, u) ==
    [result |-> res, kind |-> k, val |-> v, src |-> from, memory |-> mem,
     redis |-> red, wrote |-> w, calls |-> n, used |-> u]

\* get_gas_prediction at time c.now: [result, kind, val, src, memory,
\* redis, wrote, calls, used], calls the chain calls made and used the
\* number of blocks the snapshot was computed from; latest is what
\* get_block_number returns, answers what get_block returns over the
\* window, base_fee the base fee of the blocks
get_gas_prediction(c, getOk, setOk, latest, answers, base_fee, admitted) ==
    LET got == CacheService_get_at(c, PredictionKey, getOk, admitted)
        end == latest.val
        start == saturating_sub(end, WindowBack)
        fb == fetch_blocks(start, end, answers)
        prediction == calculate_prediction(fb.blocks, base_fee)
        put == CacheService_set_at([c EXCEPT !.memory = got.memory],
                                   PredictionKey, prediction, PredictionTtl, setOk,
                                   admitted)
    IN  IF got.val.tag = "some"
        THEN GasResult("ok", "", got.val, "cache", got.memory, c.redis,
                       FALSE, 0, 0)
        ELSE IF latest.tag = "err"
        THEN GasResult("err", "AnyhowError", None, "none", got.memory, c.redis,
                       FALSE, 1, 0)
        ELSE IF fb.blocks = <<>>
        THEN GasResult("err", "RpcError", None, "none", got.memory, c.redis,
                       FALSE, 1 + fb.calls, 0)
        ELSE IF put.result = "err"
        THEN GasResult("err", "CacheError", None, "none", put.memory, put.redis,
                       TRUE, 1 + fb.calls, Len(fb.blocks))
        ELSE GasResult("ok", "", Some(prediction), "chain", put.memory, put.redis,
                       TRUE, 1 + fb.calls, Len(fb.blocks))

\* what get_block_number returns: an error, or the number of the latest
\* block of a chain of 5 blocks and of a chain of 20
BlockNumberAnswers == {RpcErr, Some(4), Some(19)}

\* answers of get_block over a window: a found blocks, then b answers of
\* one kind, then found blocks
BlockPattern(a, b, gap) ==
    [i \in 1..(WindowBack + 1) |->
        IF i <= a THEN "ok" ELSE IF i <= a + b THEN gap ELSE "ok"]

\* every block found; one not found; an error after 10 found, after 9
\* found; nothing but errors after 9 found; nothing but not found after 9
\* found; nothing but errors
BlockPatterns ==
    { BlockPattern(0, 0, "ok"), BlockPattern(0, 1, "none"),
      BlockPattern(10, 1, "err"), BlockPattern(9, 1, "err"),
      BlockPattern(9, 11, "err"), BlockPattern(9, 11, "none"),
      BlockPattern(0, 20, "err") }

\* CacheService::new: a failed connection is logged and the service is
\* built without one
CacheService_new(connectOk) ==
    [result |-> "ok", redis_conn |-> connectOk]

NoCall == [op |-> "none", pc |-> "idle"]

\* A call of task t as it starts on the cache c.  The record is history:
\* memory and redis are the entries of the key as the call read them (the
\* durable entry is the one GET found when the call sent one, and the one
\* held when the call began otherwise), written the latest set of the key
\* when they were read, solo tells that no other call of this instance was
\* in flight and no other instance wrote while the call ran; reply is the
\* answer to GET, value and ttl what the call hands to SETEX, kept
\* whether the in-process tier took the entry the call inserted.
Call(c, t, op) ==
    [op |-> op, pc |-> "start",
     solo |-> \A u \in Tasks \ {t} : c.flight[u] = NoCall,
     result |-> "ok", val |-> None, asked |-> FALSE,
     getOk |-> TRUE, setOk |-> TRUE, wrote |-> FALSE, kept |-> TRUE,
     reply |-> None, value |-> None, ttl |-> 0,
     memory |-> c.memory[c.key], redis |-> c.redis[c.key],
     written |-> c.written]

\* how many times a behaviour has a call start while another is in flight
MaxOverlaps == 1

\* a call that starts takes the first task that is free
Free(c, t) ==
    /\ c.flight[t] = NoCall
    /\ t = "t2" => c.flight["t1"] # NoCall
    /\ (\E u \in Tasks : c.flight[u] # NoCall) => c.overlaps < MaxOverlaps

\* the calls in flight are no longer alone: another call starts
\* (c.overlaps counts these starts), or another instance writes
Crowded(c) ==
    [c EXCEPT !.flight = [u \in Tasks |->
                IF c.flight[u] = NoCall THEN NoCall
                ELSE [c.flight[u] EXCEPT !.solo = FALSE]],
              !.overlaps = IF \E u \in Tasks : c.flight[u] # NoCall
                           THEN @ + 1 ELSE @]

\* the call of task t awaits; it returns (tc.last is the latest call that
\* returned, in the state it returned in)
Flying(c, t, call) == [c EXCEPT !.flight[t] = call, !.last = NoCall]
Landed(c, t, call) ==
    [c EXCEPT !.flight[t] = NoCall, !.last = [call EXCEPT !.pc = "done"]]

\* tc.written is history: the value, time and ttl of the latest
\* CacheService::set of the key; tc.others tells whether another gateway
\* instance has written the key; tc.counter is the counter of the durable
\* tier under the key; tc.flight holds the calls that await
InitCache ==
    /\ MempoolQuiet
    /\ AnalyticsQuiet
    /\ GateServingNothing
    /\ registry_address \in {None, Some("registry")}
    /\ VerifyQuiet
    /\ PriceQuiet
    /\ \E k \in CacheKeys \cup CounterKeys, connectOk \in BOOLEAN :
         tc = [now |-> 0, ticks |-> 0, key |-> k,
               redis_conn |-> CacheService_new(connectOk).redis_conn,
               memory |-> [x \in CacheKeys |-> None],
               redis |-> [x \in CacheKeys |-> None],
               written |-> None, last |-> NoCall,
               others |-> FALSE, counter |-> None,
               flight |-> [t \in Tasks |-> NoCall], overlaps |-> 0]

\* the clock moves, whether calls are awaiting or not; entries past their
\* time to live are gone
Tick ==
    /\ tc.ticks < MaxTicks
    /\ \E d \in TimeSteps(tc.key) :
         LET t == tc.now + d
             Keep(tier) == [x \in CacheKeys |-> IF Live(tier[x], t) THEN tier[x] ELSE None]
         IN  tc' = [tc EXCEPT !.now = t, !.ticks = @ + 1,
                              !.memory = Keep(tc.memory), !.redis = Keep(tc.redis),
                              !.last = NoCall]
    /\ UNCHANGED <<gateVars, vt, pq, mp, an>>

\* the in-process tier, full of entries of other keys, drops the entry of
\* the key (max_capacity(1000))
memory_evicted ==
    /\ tc.key \in CacheKeys
    /\ tc.memory[tc.key].tag = "some"
    /\ tc' = [tc EXCEPT !.memory[tc.key] = None, !.last = NoCall]
    /\ UNCHANGED <<gateVars, vt, pq, mp, an>>

\* GET is served for the call of task t: the answer is on its way to the
\* task, which has not resumed yet
redis_get_served(t) ==
    /\ tc.flight[t].pc = "redis"
    /\ \E getOk \in BOOLEAN :
         tc' = Flying(tc, t, [tc.flight[t] EXCEPT
                 !.pc = "resume", !.asked = TRUE, !.getOk = getOk,
                 !.reply = redis_get(tc, tc.key, getOk),
                 !.redis = tc.redis[tc.key], !.written = tc.written])
    /\ UNCHANGED <<gateVars, vt, pq, mp, an>>

\* SETEX is served for the call of task t and cache.set returns, and with
\* it the call: get_reputation logs an error of set, get_gas_prediction
\* hands it on
redis_set_ex_served(t) ==
    /\ tc.flight[t].pc = "set_ex"
    /\ \E setOk \in BOOLEAN :
         LET call == tc.flight[t]
             put == CacheService_set_ex(tc, tc.key, call.value.val, call.ttl, setOk)
             failed == put.result = "err" /\ call.op # "get_reputation"
             back == [call EXCEPT !.setOk = setOk,
                                  !.result = IF failed THEN "err" ELSE "ok"]
         IN  tc' = Landed([tc EXCEPT !.redis = put.redis], t,
                          IF failed /\ call.op = "get_gas_prediction"
                          THEN [back EXCEPT !.kind = "CacheError", !.val = None]
                          ELSE back)
    /\ UNCHANGED <<gateVars, vt, pq, mp, an>>

\* get_reputation with the answer of its source: a panic in as_u64 ends
\* the call; otherwise cache.set inserts the score in the in-process tier
\* and, with a connection, awaits SETEX
get_reputation_scored(c, t, call, regAns, admitted) ==
    LET out == get_reputation_miss_at(c, call.agent, regAns, admitted)
        asked == [call EXCEPT !.regAns = regAns, !.src = out.src,
                              !.registry_calls = out.registry_calls]
        scored == [asked EXCEPT !.score = out.score, !.wrote = out.wrote,
                                !.kept = Kept(c, c.key, admitted),
                                !.value = Some(out.score), !.ttl = ReputationTtl]
        d == [c EXCEPT !.memory = out.memory,
                       !.written = IF out.wrote
                                   THEN Entry(out.score, c.now, ReputationTtl)
                                   ELSE @]
    IN  IF out.result = "panic"
        THEN Landed(c, t, [asked EXCEPT !.result = "panic"])
        ELSE IF out.wrote /\ c.redis_conn
        THEN Flying(d, t, [scored EXCEPT !.pc = "set_ex"])
        ELSE Landed(d, t, scored)

\* get_reputation after the cache gave nothing: the registry is called
\* when one is configured, and the mock table is read otherwise
get_reputation_missed(c, t, call, admitted) ==
    IF registry_address.tag = "some"
    THEN Flying(c, t, [call EXCEPT !.pc = "registry"])
    ELSE get_reputation_scored(c, t, call, RpcErr, admitted)

\* a handler asks for the score of an identity: the in-process tier is
\* read
get_reputation_call(t) ==
    /\ Free(tc, t)
    /\ \E agent \in { a \in CacheAgents : ReputationKey(a) = tc.key } :
       \E admitted \in Admissions(tc) :
         /\ ReputationKey(agent) = tc.key
         /\ LET call == [agent |-> agent, regAns |-> RpcErr, score |-> 0, src |-> "",
                         registry_calls |-> 0] @@ Call(tc, t, "get_reputation")
                go == CacheService_get_memory(tc, tc.key)
                c == Crowded(tc)
            IN  tc' = IF go.pc = "redis"
                      THEN Flying(c, t, [call EXCEPT !.pc = "redis"])
                      ELSE IF go.val.tag = "some"
                      THEN Landed(c, t, [call EXCEPT !.score = go.val.val,
                                                     !.src = "cache"])
                      ELSE get_reputation_missed(c, t, call, admitted)
    /\ UNCHANGED <<gateVars, vt, pq, mp, an>>

\* cache.get returns to get_reputation with the reply to GET
get_reputation_cached(t) ==
    /\ tc.flight[t].op = "get_reputation"
    /\ tc.flight[t].pc = "resume"
    /\ \E admitted \in Admissions(tc) :
         LET call == tc.flight[t]
             got == CacheService_get_refill(tc, tc.key, call.reply, admitted)
         IN  tc' = IF got.val.tag = "some"
                   THEN Landed([tc EXCEPT !.memory = got.memory], t,
                               [call EXCEPT !.score = got.val.val, !.src = "cache",
                                            !.kept = Kept(tc, tc.key, admitted)])
                   ELSE get_reputation_missed(tc, t, call, admitted)
    /\ UNCHANGED <<gateVars, vt, pq, mp, an>>

\* the registry call of get_reputation returns, with an error or with a
\* uint256
get_reputation_registry_reply(t) ==
    /\ tc.flight[t].op = "get_reputation"
    /\ tc.flight[t].pc = "registry"
    /\ \E regAns \in RegistryAnswers, admitted \in Admissions(tc) :
         tc' = get_reputation_scored(tc, t, tc.flight[t], regAns, admitted)
    /\ UNCHANGED <<gateVars, vt, pq, mp, an>>

\* CacheService::set as get_gas_prediction calls it: the in-process tier
\* is written, and with a connection the call awaits SETEX
CacheService_set_call(t) ==
    /\ tc.key = PredictionKey
    /\ Free(tc, t)
    /\ \E v \in Predictions, admitted \in Admissions(tc) :
         LET call == [Call(tc, t, "set") EXCEPT
                        !.val = Some(v), !.wrote = TRUE,
                        !.kept = Kept(tc, tc.key, admitted),
                        !.value = Some(v), !.ttl = PredictionTtl]
             c == [Crowded(tc) EXCEPT
                     !.memory = CacheService_set_memory(tc, tc.key, v, PredictionTtl,
                                                        admitted),
                     !.written = Entry(serde_json_to_string(tc.key, v),
                                       tc.now, PredictionTtl)]
         IN  tc' = IF tc.redis_conn
                   THEN Flying(c, t, [call EXCEPT !.pc = "set_ex"])
                   ELSE Landed(c, t, call)
    /\ UNCHANGED <<gateVars, vt, pq, mp, an>>

\* CacheService::get as get_gas_prediction calls it: the in-process tier is
\* read
CacheService_get_call(t) ==
    /\ tc.key = PredictionKey
    /\ Free(tc, t)
    /\ LET call == Call(tc, t, "get")
           go == CacheService_get_memory(tc, tc.key)
       IN  tc' = IF go.pc = "redis"
                 THEN Flying(Crowded(tc), t, [call EXCEPT !.pc = "redis"])
                 ELSE Landed(Crowded(tc), t, [call EXCEPT !.val = go.val])
    /\ UNCHANGED <<gateVars, vt, pq, mp, an>>

\* the task of a get resumes with the reply to GET: a durable hit refills
\* the in-process tier, and get returns
CacheService_get_return(t) ==
    /\ tc.flight[t].op = "get"
    /\ tc.flight[t].pc = "resume"
    /\ \E admitted \in Admissions(tc) :
         LET got == CacheService_get_refill(tc, tc.key, tc.flight[t].reply, admitted)
         IN  tc' = Landed([tc EXCEPT !.memory = got.memory], t,
                          [tc.flight[t] EXCEPT !.val = got.val,
                                               !.kept = Kept(tc, tc.key, admitted)])
    /\ UNCHANGED <<gateVars, vt, pq, mp, an>>

\* how many times a behaviour has another gateway instance write the key
MaxOtherWrites == 1

OtherWrites(c) == IF c.others THEN 1 ELSE 0

\* another gateway instance connected to the durable backend stores a
\* prediction (its get_gas_prediction missed): the durable tier only is
\* written, whether this instance has a connection or not
other_instance_set ==
    /\ tc.key = PredictionKey
    /\ OtherWrites(tc) < MaxOtherWrites
    /\ \E v \in Predictions :
         tc' = [Crowded(tc) EXCEPT
               !.overlaps = tc.overlaps,
               !.redis = [@ EXCEPT ![tc.key] =
                            Entry(serde_json_to_string(tc.key, v), tc.now, PredictionTtl)],
               !.written = Entry(serde_json_to_string(tc.key, v), tc.now, PredictionTtl),
               !.others = TRUE,
               !.last = NoCall]
    /\ UNCHANGED <<gateVars, vt, pq, mp, an>>

\* CacheService::increment as record_payment (its two counters, by 1) and
\* get_stats (its counter, by 0) call it: without a connection the delta
\* is returned at once, with one the call awaits INCRBY
CacheService_increment_call(t) ==
    /\ tc.key \in CounterKeys
    /\ Free(tc, t)
    /\ tc.counter.tag = "some" => tc.counter.val < MaxCount
    /\ LET delta == CounterDelta(tc.key)
           call == [op |-> "increment", pc |-> "start", delta |-> delta,
                    redisOk |-> TRUE, result |-> "ok", val |-> 0,
                    solo |-> \A u \in Tasks \ {t} : tc.flight[u] = NoCall,
                    count |-> tc.counter]
           out == CacheService_increment_unconnected(delta)
       IN  tc' = IF tc.redis_conn
                 THEN Flying(Crowded(tc), t, [call EXCEPT !.pc = "incr"])
                 ELSE Landed(Crowded(tc), t,
                             [call EXCEPT !.result = out.result, !.val = out.val])
    /\ UNCHANGED <<gateVars, vt, pq, mp, an>>

\* INCRBY is served for the call of task t and increment returns
CacheService_increment_served(t) ==
    /\ tc.flight[t].pc = "incr"
    /\ \E redisOk \in BOOLEAN :
         LET call == tc.flight[t]
             out == CacheService_increment(tc.counter, call.delta, redisOk)
         IN  tc' = Landed([tc EXCEPT !.counter = out.count], t,
                          [call EXCEPT !.redisOk = redisOk, !.result = out.result,
                                       !.val = out.val, !.count = tc.counter])
    /\ UNCHANGED <<gateVars, vt, pq, mp, an>>

\* CacheService::ping as health_check calls it
CacheService_ping_call ==
    /\ tc.key \in CounterKeys
    /\ \E redisOk \in IF tc.redis_conn THEN BOOLEAN ELSE {TRUE} :
         LET out == CacheService_ping(tc.redis_conn, redisOk)
         IN  tc' = [tc EXCEPT
               !.last = [op |-> "ping", redisOk |-> redisOk,
                         result |-> out.result, val |-> out.val]]
    /\ UNCHANGED <<gateVars, vt, pq, mp, an>>

\* the gas handler and health_check ask for a prediction: the in-process
\* tier is read
get_gas_prediction_call(t) ==
    /\ tc.key = PredictionKey
    /\ Free(tc, t)
    /\ LET call == [latest |-> RpcErr, base_fee |-> 30, kind |-> "",
                    src |-> "none", calls |-> 0, used |-> 0]
                   @@ Call(tc, t, "get_gas_prediction")
           go == CacheService_get_memory(tc, PredictionKey)
       IN  tc' = IF go.pc = "redis"
                 THEN Flying(Crowded(tc), t, [call EXCEPT !.pc = "redis"])
                 ELSE IF go.val.tag = "some"
                 THEN Landed(Crowded(tc), t,
                             [call EXCEPT !.val = go.val, !.src = "cache"])
                 ELSE Flying(Crowded(tc), t, [call EXCEPT !.pc = "number"])
    /\ UNCHANGED <<gateVars, vt, pq, mp, an>>

\* cache.get returns to get_gas_prediction with the reply to GET: a hit is
\* returned, on a miss the number of the latest block is asked for
get_gas_prediction_cached(t) ==
    /\ tc.flight[t].op = "get_gas_prediction"
    /\ tc.flight[t].pc = "resume"
    /\ \E admitted \in Admissions(tc) :
         LET call == tc.flight[t]
             got == CacheService_get_refill(tc, PredictionKey, call.reply, admitted)
         IN  tc' = IF got.val.tag = "some"
                   THEN Landed([tc EXCEPT !.memory = got.memory], t,
                               [call EXCEPT !.val = got.val, !.src = "cache",
                                            !.kept = Kept(tc, tc.key, admitted)])
                   ELSE Flying(tc, t, [call EXCEPT !.pc = "number"])
    /\ UNCHANGED <<gateVars, vt, pq, mp, an>>

\* get_block_number returns the number of the latest block of the chain,
\* or an error, which is the error of the call
get_gas_prediction_latest(t) ==
    /\ tc.flight[t].pc = "number"
    /\ \E latest \in {RpcErr, tc.chain.latest} :
         LET call == [tc.flight[t] EXCEPT !.latest = latest, !.calls = 1]
         IN  tc' = IF latest.tag = "err"
                   THEN Landed(tc, t, [call EXCEPT !.result = "err",
                                                   !.kind = "AnyhowError"])
                   ELSE Flying(tc, t, [call EXCEPT !.pc = "blocks"])
    /\ UNCHANGED <<gateVars, vt, pq, mp, an>>

\* fetch_blocks returns (its get_block calls read the chain only and are
\* taken together): with no block the call fails; otherwise the prediction
\* is computed and cache.set puts it in the in-process tier and, with a
\* connection, awaits SETEX
get_gas_prediction_blocks(t) ==
    /\ tc.flight[t].pc = "blocks"
    /\ \E admitted \in Admissions(tc) :
         LET call == tc.flight[t]
             answers == tc.chain.answers
             base_fee == tc.chain.base_fee
             end == call.latest.val
             fb == fetch_blocks(saturating_sub(end, WindowBack), end, answers)
             prediction == calculate_prediction(fb.blocks, base_fee)
             asked == [call EXCEPT !.base_fee = base_fee, !.calls = 1 + fb.calls]
             made == [asked EXCEPT !.val = Some(prediction), !.src = "chain",
                                   !.wrote = TRUE, !.used = Len(fb.blocks),
                                   !.kept = Kept(tc, tc.key, admitted),
                                   !.value = Some(prediction), !.ttl = PredictionTtl]
             c == [tc EXCEPT
                     !.memory = CacheService_set_memory(tc, PredictionKey, prediction,
                                                        PredictionTtl, admitted),
                     !.written = Entry(serde_json_to_string(PredictionKey, prediction),
                                       tc.now, PredictionTtl)]
         IN  tc' = IF fb.blocks = <<>>
                   THEN Landed(tc, t, [asked EXCEPT !.result = "err",
                                                    !.kind = "RpcError"])
                   ELSE IF tc.redis_conn
                   THEN Flying(c, t, [made EXCEPT !.pc = "set_ex"])
                   ELSE Landed(c, t, made)
    /\ UNCHANGED <<gateVars, vt, pq, mp, an>>

NextCache ==
    \/ Tick
    \/ memory_evicted
    \/ \E t \in Tasks : get_reputation_call(t)
    \/ \E t \in Tasks : get_reputation_cached(t)
    \/ \E t \in Tasks : get_reputation_registry_reply(t)
    \/ \E t \in Tasks : CacheService_set_call(t)
    \/ \E t \in Tasks : CacheService_get_call(t)
    \/ \E t \in Tasks : CacheService_get_return(t)
    \/ \E t \in Tasks : redis_get_served(t)
    \/ \E t \in Tasks : redis_set_ex_served(t)
    \/ other_instance_set
    \/ \E t \in Tasks : CacheService_increment_call(t)
    \/ \E t \in Tasks : CacheService_increment_served(t)
    \/ CacheService_ping_call

SpecCache == InitCache /\ [][NextCache]_vars

\* ------------------------------------------------------------------------
\* SpecGas: EthereumService::get_gas_prediction over the cache with time,
\* the key being gas:prediction.  This instance alone writes the key, and a
\* behaviour runs against one chain (tc.chain), whose get_block_number can
\* fail on any call.
\* ------------------------------------------------------------------------

\* what an endpoint answers to get_block: the block, no such block, an
\* error; and to get_block_number: a number or an error
EndpointBlockAnswers(endpoint) ==
    { [tag |-> t, from |-> endpoint] : t \in {"ok", "none", "err"} }
EndpointNumberAnswers(endpoint) ==
    { [tag |-> "err", from |-> endpoint] }
    \cup { [tag |-> "some", val |-> n, from |-> endpoint] : n \in {4, 19} }

\* get_block handing back the primary's error when the secondary fails too
get_block_primaryError(fallback, primary, secondary) ==
    IF primary.tag # "err"
    THEN [val |-> primary, secondary_calls |-> 0]
    ELSE IF fallback
    THEN [val |-> IF secondary.tag = "err" THEN primary ELSE secondary,
          secondary_calls |-> 1]
    ELSE [val |-> primary, secondary_calls |-> 0]

\* EthereumService::get_block: [val, secondary_calls], fallback telling
\* whether a secondary endpoint is configured
get_block(fallback, primary, secondary) ==
    IF primary.tag # "err"
    THEN [val |-> primary, secondary_calls |-> 0]
    ELSE IF fallback
    THEN [val |-> secondary, secondary_calls |-> 1]
    ELSE [val |-> primary, secondary_calls |-> 0]

\* EthereumService::get_block_number
get_block_number(fallback, primary, secondary) ==
    IF primary.tag # "err"
    THEN [val |-> primary, secondary_calls |-> 0]
    ELSE IF fallback
    THEN [val |-> secondary, secondary_calls |-> 1]
    ELSE [val |-> primary, secondary_calls |-> 0]

\* the chain a behaviour runs against: the number of its latest block (a
\* chain of 5 blocks, of 20), what get_block answers over the window and
\* the base fee of its blocks
GasChains ==
    { [latest |-> Some(n),
       answers |-> SubSeq(a, 1, n - saturating_sub(n, WindowBack) + 1),
       base_fee |-> f] :
        n \in {4, 19}, a \in BlockPatterns, f \in BaseFees }

\* tc.chain: the chain of the behaviour
InitGas ==
    /\ MempoolQuiet
    /\ AnalyticsQuiet
    /\ GateQuiet
    /\ VerifyQuiet
    /\ PriceQuiet
    /\ \E conn \in BOOLEAN, ch \in GasChains :
         tc = [now |-> 0, ticks |-> 0, key |-> PredictionKey, redis_conn |-> conn,
               memory |-> [x \in CacheKeys |-> None],
               redis |-> [x \in CacheKeys |-> None],
               written |-> None, last |-> NoCall,
               others |-> FALSE, counter |-> None, chain |-> ch,
               flight |-> [t \in Tasks |-> NoCall], overlaps |-> 0]

\* fetch_blocks asks for one block
get_block_call ==
    /\ tc.key = PredictionKey
    /\ \E primary \in EndpointBlockAnswers("primary"),
          secondary \in EndpointBlockAnswers("secondary") :
         LET out == get_block(tc.fallback, primary, secondary)
         IN  tc' = [tc EXCEPT
               !.last = [op |-> "get_block", primary |-> primary,
                         secondary |-> secondary, val |-> out.val,
                         secondary_calls |-> out.secondary_calls]]
    /\ UNCHANGED <<gateVars, vt, pq, mp, an>>

\* get_gas_prediction asks for the number of the latest block
get_block_number_call ==
    /\ tc.key = PredictionKey
    /\ \E primary \in EndpointNumberAnswers("primary"),
          secondary \in EndpointNumberAnswers("secondary") :
         LET out == get_block_number(tc.fallback, primary, secondary)
         IN  tc' = [tc EXCEPT
               !.last = [op |-> "get_block_number", primary |-> primary,
                         secondary |-> secondary, val |-> out.val,
                         secondary_calls |-> out.secondary_calls]]
    /\ UNCHANGED <<gateVars, vt, pq, mp, an>>

NextGas ==
    \/ Tick
    \/ memory_evicted
    \/ \E t \in Tasks : get_gas_prediction_call(t)
    \/ \E t \in Tasks : get_gas_prediction_cached(t)
    \/ \E t \in Tasks : get_gas_prediction_latest(t)
    \/ \E t \in Tasks : get_gas_prediction_blocks(t)
    \/ \E t \in Tasks : redis_get_served(t)
    \/ \E t \in Tasks : redis_set_ex_served(t)

SpecGas == InitGas /\ [][NextGas]_vars

\* ------------------------------------------------------------------------
\* SpecChain: EthereumService's calls to its endpoints.
\* tc.fallback: EthereumService.fallback is Some (ETH_RPC_FALLBACK is set)
\* ------------------------------------------------------------------------

InitChain ==
    /\ MempoolQuiet
    /\ AnalyticsQuiet
    /\ GateQuiet
    /\ VerifyQuiet
    /\ PriceQuiet
    /\ \E conn \in BOOLEAN, fallback \in BOOLEAN :
         tc = [now |-> 0, ticks |-> 0, key |-> PredictionKey, redis_conn |-> conn,
               memory |-> [x \in CacheKeys |-> None],
               redis |-> [x \in CacheKeys |-> None],
               written |-> None, last |-> NoCall,
               others |-> FALSE, counter |-> None,
               flight |-> [t \in Tasks |-> NoCall], overlaps |-> 0, fallback |-> fallback]

NextChain ==
    \/ Tick
    \/ get_block_call
    \/ get_block_number_call

SpecChain == InitChain /\ [][NextChain]_vars

\* ------------------------------------------------------------------------
\* SpecMempool: MempoolService.  The writer is the start_monitoring loop:
\* it takes the next pending transaction, waits for the write lock, evicts,
\* appends, and drops the lock at the end of the block.  Transactions are
\* numbered in arrival order; a hash whose transaction cannot be fetched
\* leaves the service as it is.  mp.pushed counts the completed appends
\* and mp.snap_at is its value when the latest snapshot was taken.
\* ------------------------------------------------------------------------

\* how many pending transactions a behaviour observes
MaxObserved == 102

\* MempoolService::new: max_pending: 100
max_pending == 100

\* the most recent min(m, max_pending) of the first m transactions
Window(m) ==
    LET k == IF m < max_pending THEN m ELSE max_pending
    IN  [i \in 1..k |-> m - k + i]

GateAndCacheQuiet ==
    GateQuiet /\ VerifyQuiet /\ PriceQuiet /\ CacheQuiet

InitMempool ==
    /\ GateAndCacheQuiet
    /\ AnalyticsQuiet
    /\ mp = [pending_txs |-> <<>>, lock |-> "free", pc |-> "idle", tx |-> 0,
             pushed |-> 0, snapshot |-> None, snap_at |-> 0]

\* stream.next() yields a hash and get_transaction returns its transaction
start_monitoring_next ==
    /\ mp.pc = "idle"
    /\ mp.pushed < MaxObserved
    /\ mp' = [mp EXCEPT !.pc = "wait", !.tx = mp.pushed + 1]
    /\ UNCHANGED <<gateVars, vt, pq, tc, an>>

\* self.pending_txs.write().await returns the guard
start_monitoring_lock ==
    /\ mp.pc = "wait"
    /\ mp.lock = "free"
    /\ mp' = [mp EXCEPT !.pc = "evict", !.lock = "write"]
    /\ UNCHANGED <<gateVars, vt, pq, tc, an>>

\* the eviction made only once the buffer is above capacity
start_monitoring_evict_above ==
    /\ mp.pc = "evict"
    /\ mp' = [mp EXCEPT !.pc = "push",
                        !.pending_txs = IF Len(@) > max_pending THEN Tail(@) ELSE @]
    /\ UNCHANGED <<gateVars, vt, pq, tc, an>>

\* if pending.len() >= self.max_pending { pending.pop_front(); }
start_monitoring_evict ==
    /\ mp.pc = "evict"
    /\ mp' = [mp EXCEPT !.pc = "push",
                        !.pending_txs = IF Len(@) >= max_pending THEN Tail(@) ELSE @]
    /\ UNCHANGED <<gateVars, vt, pq, tc, an>>

\* pending.push_back(tx); the guard is dropped
start_monitoring_push ==
    /\ mp.pc = "push"
    /\ mp' = [mp EXCEPT !.pc = "idle", !.lock = "free",
                        !.pending_txs = Append(@, mp.tx),
                        !.pushed = @ + 1]
    /\ UNCHANGED <<gateVars, vt, pq, tc, an>>

\* get_pending_transactions copying the buffer without the read lock
get_pending_transactions_unlocked ==
    /\ mp' = [mp EXCEPT !.snapshot = Some(mp.pending_txs), !.snap_at = mp.pushed]
    /\ UNCHANGED <<gateVars, vt, pq, tc, an>>

\* get_pending_transactions: the read guard is obtained when no writer
\* holds the lock, the buffer is copied and the guard dropped, with no await
\* in between
get_pending_transactions ==
    /\ mp.lock = "free"
    /\ mp' = [mp EXCEPT !.snapshot = Some(mp.pending_txs), !.snap_at = mp.pushed]
    /\ UNCHANGED <<gateVars, vt, pq, tc, an>>

NextMempool ==
    \/ start_monitoring_next
    \/ start_monitoring_lock
    \/ start_monitoring_evict
    \/ start_monitoring_push
    \/ get_pending_transactions

SpecMempool == InitMempool /\ [][NextMempool]_vars

\* ------------------------------------------------------------------------
\* SpecPay: Analytics::record_payment called concurrently, all calls on one
\* day and within the time to live of the in-process tier.  A call adds 1
\* to payments_total, awaits the two counter increments of the cache, then
\* reads payments_total for the key of its record and sets the record: in
\* the in-process tier at once, in the durable tier when SETEX is served.
\* Without a connection the cache awaits nothing.
\* ------------------------------------------------------------------------

\* how many record_payment calls a behaviour follows
MaxCalls == 3

Calls == 1..MaxCalls

\* self.payments_total.fetch_add(1, Ordering::SeqCst)
Analytics_fetch_add(a) == [a EXCEPT !.payments_total = @ + 1]

\* format!("payment:{}:{}", date, self.payments_total.load(..)): the
\* number the key ends in is the counter as it is when the key is built
payment_key(a) == a.payments_total

\* cache.set(&payment_key, &payment_record, ..) up to its await:
\* self.memory.insert; an entry under the same key is replaced, so the keys
\* in use are a set
Analytics_set_memory(a, key) == [a EXCEPT !.memory = @ \cup {key}]

\* the SETEX of that cache.set is served (redisOk: it succeeds; a failure
\* is logged)
Analytics_set_ex(a, key, redisOk) ==
    IF redisOk THEN [a EXCEPT !.redis = @ \cup {key}] ELSE a

\* an.calls[p]: how far call p is, and the number its key ended in;
\* an.counters: the counters of the durable tier
InitPay ==
    /\ GateAndCacheQuiet
    /\ MempoolQuiet
    /\ \E conn \in BOOLEAN :
         an = [payments_total |-> Analytics_new.payments_total,
               memory |-> Analytics_new.memory,
               redis |-> Analytics_new.redis,
               redis_conn |-> conn,
               counters |-> [c \in {PaymentsCounter, EndpointCounter} |-> 0],
               calls |-> [p \in Calls |-> [pc |-> "idle", key |-> 0]]]

\* call p starts: the counter is bumped, then the call awaits the first
\* INCRBY; with no connection both increments return at once
record_payment_fetch_add(p) ==
    /\ an.calls[p].pc = "idle"
    /\ an' = [Analytics_fetch_add(an) EXCEPT
                 !.calls[p].pc = IF an.redis_conn THEN "payments" ELSE "counted"]
    /\ UNCHANGED <<gateVars, vt, pq, tc, mp>>

\* INCRBY analytics:payments:<date> 1 is served (a failure is logged); the
\* call goes on to the second increment
record_payment_increment_payments(p) ==
    /\ an.calls[p].pc = "payments"
    /\ \E redisOk \in BOOLEAN :
         an' = [an EXCEPT
                  !.counters[PaymentsCounter] = IF redisOk THEN @ + 1 ELSE @,
                  !.calls[p].pc = "endpoint"]
    /\ UNCHANGED <<gateVars, vt, pq, tc, mp>>

\* INCRBY analytics:endpoint:<endpoint>:<date> 1 is served
record_payment_increment_endpoint(p) ==
    /\ an.calls[p].pc = "endpoint"
    /\ \E redisOk \in BOOLEAN :
         an' = [an EXCEPT
                  !.counters[EndpointCounter] = IF redisOk THEN @ + 1 ELSE @,
                  !.calls[p].pc = "counted"]
    /\ UNCHANGED <<gateVars, vt, pq, tc, mp>>

\* call p resumes: the key is built and the record of the call is put in
\* the in-process tier; with a connection the call awaits SETEX
record_payment_set(p) ==
    /\ an.calls[p].pc = "counted"
    /\ an' = [Analytics_set_memory(an, payment_key(an)) EXCEPT
                 !.calls[p] = [pc |-> IF an.redis_conn THEN "set_ex" ELSE "done",
                               key |-> payment_key(an)]]
    /\ UNCHANGED <<gateVars, vt, pq, tc, mp>>

\* the SETEX of call p is served and the call returns
record_payment_set_ex(p) ==
    /\ an.calls[p].pc = "set_ex"
    /\ \E redisOk \in BOOLEAN :
         an' = [Analytics_set_ex(an, an.calls[p].key, redisOk) EXCEPT
                  !.calls[p].pc = "done"]
    /\ UNCHANGED <<gateVars, vt, pq, tc, mp>>

NextPay ==
    \/ \E p \in Calls : record_payment_fetch_add(p)
    \/ \E p \in Calls : record_payment_increment_payments(p)
    \/ \E p \in Calls : record_payment_increment_endpoint(p)
    \/ \E p \in Calls : record_payment_set(p)
    \/ \E p \in Calls : record_payment_set_ex(p)

SpecPay == InitPay /\ [][NextPay]_vars

\* ------------------------------------------------------------------------
\* SpecPrice: calculate_price on every enumerated base price and score
\* ------------------------------------------------------------------------

MaxScore == 1100

\* base prices in millionths of a dollar: those of the two handlers and one more
BasePrices == {10000, 100000, 290000}

\* the scores at which the match arms of calculate_price change
TierEdges == {0, 99, 100, 500, 501, 1000, 1001}

InitPrice ==
    /\ MempoolQuiet
    /\ AnalyticsQuiet
    /\ pq \in [base_price : BasePrices, s1 : 0..MaxScore, s2 : TierEdges,
                p1 : {-1}, p2 : {-1}]
    /\ GateQuiet
    /\ VerifyQuiet
    /\ CacheQuiet

calculate_price_call ==
    /\ pq.p1 = -1
    /\ pq' = [pq EXCEPT !.p1 = calculate_price(pq.base_price, pq.s1),
                        !.p2 = calculate_price(pq.base_price, pq.s2)]
    /\ UNCHANGED <<gateVars, vt, tc, mp, an>>

NextPrice == calculate_price_call

SpecPrice == InitPrice /\ [][NextPrice]_vars

\* ------------------------------------------------------------------------
\* Spec: requests through the protected routes
\* ------------------------------------------------------------------------

Init ==
    InitGate /\ VerifyQuiet /\ PriceQuiet /\ CacheQuiet /\ MempoolQuiet /\ AnalyticsQuiet

\* how many payments a behaviour records: a request is followed as long
\* as it and the requests under way can each record a payment
MaxPayments == 2

UnderWay == { q \in Requests : req[q].pc # "idle" }

\* the numbers the keys of the payment records end in
PaymentKeys == 1..MaxPayments

\* the request ends in the gate with the error e
Reject(rq, e, self) ==
    [rq EXCEPT !.pc = "done", !.out = e,
               !.response = IF e.tag = "panic" THEN NoResponse
                            ELSE into_response(e, self.expected_amount_usd, environ)]

\* x402_middleware_layer and verify_payment_header up to the first chain
\* call: read the header, decode the proof, ask for the receipt.  Once the
\* proof is decoded the record keeps the trimmed text only.
x402_middleware_layer(r) ==
    /\ req[r].pc = "idle"
    /\ an.payments_total + Cardinality(UnderWay) < MaxPayments
    /\ \E route \in Routes, h \in HeaderSet :
         LET self == x402[route]
             rq == [req[r] EXCEPT !.route = route, !.header = h]
             proof == payment_header(h)
             trimmed == trim_start_matches_0x(h)
             hash == IF proof.tag = "some" THEN H256_from_str(trimmed) ELSE None
         IN  req' = [req EXCEPT ![r] =
                 IF proof.tag = "none"
                 THEN Reject(rq, GateError("PaymentRequired", ""), self)
                 ELSE IF hash.tag = "none"
                 THEN Reject(rq, GateError("InvalidPaymentProof", "Invalid tx hash"), self)
                 ELSE [rq EXCEPT !.pc = "receipt", !.header = trimmed,
                                 !.tx_hash = hash.val, !.chainCalls = 1]]
    /\ UNCHANGED <<environ, x402, chain, acceptedLog, registry_address,
                   memory, redis_conn, redis, vt, hung, pq, tc, mp, an>>

\* the provider answers get_transaction_receipt; on a successful receipt
\* verify_transaction asks for the transaction
get_transaction_receipt_reply(r) ==
    /\ req[r].pc = "receipt"
    /\ r \notin hung
    /\ \E rpcOk \in BOOLEAN :
         LET self == x402[req[r].route]
             ans == IF rpcOk THEN chain[req[r].tx_hash].receipt ELSE RpcErr
             first == ValidOrError(ReceiptStage(ans))
         IN  req' = [req EXCEPT ![r] =
                 IF first.tag = "go"
                 THEN [@ EXCEPT !.pc = "tx", !.chainCalls = @ + 1]
                 ELSE Reject(@, first, self)]
    /\ UNCHANGED <<environ, x402, chain, acceptedLog, registry_address,
                   memory, redis_conn, redis, vt, hung, pq, tc, mp, an>>

\* get_transaction_reply with a ledger of consumed proofs: a proof that was
\* accepted before is refused
get_transaction_reply_dedup(r) ==
    /\ req[r].pc = "tx"
    /\ r \notin hung
    /\ \E rpcOk \in BOOLEAN :
         LET self == x402[req[r].route]
             ans == IF rpcOk THEN chain[req[r].tx_hash].tx ELSE RpcErr
             used == <<req[r].route, req[r].tx_hash>> \in acceptedLog
             out == IF used
                    THEN GateError("PaymentVerificationFailed", "Proof already used")
                    ELSE ValidOrError(
                        TransactionStage(self, chain[req[r].tx_hash].receipt.val, ans))
         IN  /\ req' = [req EXCEPT ![r] =
                   IF out.tag = "ok"
                   THEN [@ EXCEPT !.pc = "report", !.out = out, !.reports = @ + 1,
                                  !.report = SettlementRequest(req[r].tx_hash, out)]
                   ELSE Reject(@, out, self)]
             /\ acceptedLog' = IF out.tag = "ok"
                               THEN acceptedLog \cup {<<req[r].route, req[r].tx_hash>>}
                               ELSE acceptedLog
    /\ UNCHANGED <<environ, x402, chain, registry_address,
                   memory, redis_conn, redis, vt, hung, pq, tc, mp, an>>

\* get_transaction_reply with the proof under verification kept in the
\* shared middleware instead of the request's own task: the checks run on
\* the hash of whichever request stored its proof last
get_transaction_reply_sharedProof(r) ==
    /\ req[r].pc = "tx"
    /\ r \notin hung
    /\ \E rpcOk \in BOOLEAN, q \in Requests :
         /\ req[q].tx_hash \in TxHashes
         /\ LET self == x402[req[r].route]
                 h == req[q].tx_hash
                 ans == IF rpcOk THEN chain[h].tx ELSE RpcErr
                 out == IF chain[h].receipt.tag = "some"
                        THEN ValidOrError(TransactionStage(self, chain[h].receipt.val, ans))
                        ELSE GateError("PaymentVerificationFailed", "Transaction not found")
             IN  /\ req' = [req EXCEPT ![r] =
                       IF out.tag = "ok"
                       THEN [@ EXCEPT !.pc = "report", !.out = out, !.reports = @ + 1,
                                  !.report = SettlementRequest(req[r].tx_hash, out)]
                       ELSE Reject(@, out, self)]
                 /\ acceptedLog' = IF out.tag = "ok"
                                   THEN acceptedLog \cup {<<req[r].route, req[r].tx_hash>>}
                                   ELSE acceptedLog
    /\ UNCHANGED <<environ, x402, chain, registry_address,
                   memory, redis_conn, redis, vt, hung, pq, tc, mp, an>>

\* get_transaction_reply with the settlement report posted for every
\* verification that ran to its end, valid or not
get_transaction_reply_reportAll(r) ==
    /\ req[r].pc = "tx"
    /\ r \notin hung
    /\ \E rpcOk \in BOOLEAN :
         LET self == x402[req[r].route]
             ans == IF rpcOk THEN chain[req[r].tx_hash].tx ELSE RpcErr
             ran == TransactionStage(self, chain[req[r].tx_hash].receipt.val, ans)
             out == ValidOrError(ran)
         IN  /\ req' = [req EXCEPT ![r] =
                   IF out.tag = "ok"
                   THEN [@ EXCEPT !.pc = "report", !.out = out, !.reports = @ + 1,
                                  !.report = SettlementRequest(req[r].tx_hash, out)]
                   ELSE IF ran.tag = "ok"
                   THEN Reject([@ EXCEPT !.reports = @ + 1,
                                         !.report = SettlementRequest(req[r].tx_hash, ran)],
                               out, self)
                   ELSE Reject(@, out, self)]
             /\ acceptedLog' = IF out.tag = "ok"
                               THEN acceptedLog \cup {<<req[r].route, req[r].tx_hash>>}
                               ELSE acceptedLog
    /\ UNCHANGED <<environ, x402, chain, registry_address,
                   memory, redis_conn, redis, vt, hung, pq, tc, mp, an>>

\* the provider answers get_transaction; verify_transaction runs to its end
\* and, for a valid verification, the settlement report is posted
get_transaction_reply(r) ==
    /\ req[r].pc = "tx"
    /\ r \notin hung
    /\ \E rpcOk \in BOOLEAN :
         LET self == x402[req[r].route]
             ans == IF rpcOk THEN chain[req[r].tx_hash].tx ELSE RpcErr
             out == ValidOrError(
                        TransactionStage(self, chain[req[r].tx_hash].receipt.val, ans))
         IN  /\ req' = [req EXCEPT ![r] =
                   IF out.tag = "ok"
                   THEN [@ EXCEPT !.pc = "report", !.out = out, !.reports = @ + 1,
                                  !.report = SettlementRequest(req[r].tx_hash, out)]
                   ELSE Reject(@, out, self)]
             /\ acceptedLog' = IF out.tag = "ok"
                               THEN acceptedLog \cup {<<req[r].route, req[r].tx_hash>>}
                               ELSE acceptedLog
    /\ UNCHANGED <<environ, x402, chain, registry_address,
                   memory, redis_conn, redis, vt, hung, pq, tc, mp, an>>

FacilitatorOutcomes == {"success", "rejected", "transport_error"}

\* extract_agent_address: a header that parses as an address becomes the
\* request's agent extension
AgentHeaders == {None} \cup { Some(x) : x \in Agents }
extract_agent_address(agent_header) == agent_header

\* report_to_facilitator_reply with the report's error propagated (`?`
\* in place of `.ok()`)
report_to_facilitator_reply_strict(r) ==
    /\ req[r].pc = "report"
    /\ r \notin hung
    /\ \E f \in FacilitatorOutcomes, agent_header \in AgentHeaders :
         req' = [req EXCEPT ![r] =
                   IF f = "transport_error"
                   THEN Reject(@, GateError("AnyhowError", "facilitator"),
                               x402[req[r].route])
                   ELSE [@ EXCEPT !.pc = "handler", !.facilitator = f,
                                  !.agent = extract_agent_address(agent_header)]]
    /\ UNCHANGED <<environ, x402, chain, acceptedLog, registry_address,
                   memory, redis_conn, redis, vt, hung, pq, tc, mp, an>>

\* report_to_facilitator returns: its result is dropped (.ok()), the
\* verification is returned, the layer calls next.run, which runs
\* extract_agent_address and enters the handler
report_to_facilitator_reply(r) ==
    /\ req[r].pc = "report"
    /\ r \notin hung
    /\ \E f \in FacilitatorOutcomes, agent_header \in AgentHeaders :
         req' = [req EXCEPT ![r] =
                   [@ EXCEPT !.pc = "handler", !.facilitator = f,
                             !.agent = extract_agent_address(agent_header)]]
    /\ UNCHANGED <<environ, x402, chain, acceptedLog, registry_address,
                   memory, redis_conn, redis, vt, hung, pq, tc, mp, an>>

\* the collaborator a request is waiting on (the chain provider, the
\* facilitator) never answers.  Provider::<Http>::try_from and
\* reqwest::Client::new build clients without a timeout, and each call is
\* awaited in the request's task: nothing else resumes the request.
call_hangs(r) ==
    /\ req[r].pc \in {"receipt", "tx", "report", "registry", "payload"}
    /\ (req[r].pc = "payload") => (req[r].route = "gas")
    /\ r \notin hung
    /\ hung' = hung \cup {r}
    /\ UNCHANGED <<environ, x402, chain, req, acceptedLog, registry_address,
                   memory, redis_conn, redis, vt, pq, tc, mp, an>>

\* the handler has the score: a denied caller is answered 403 at once;
\* for any other the price is quoted and record_payment starts, running up
\* to its first await after payments_total.fetch_add
Quoted(r, score, denied) ==
    LET rq == req[r]
        price == IF rq.agent.tag = "some"
                 THEN calculate_price(HandlerBasePrice(rq.route), score)
                 ELSE HandlerBasePrice(rq.route)
    IN  /\ req' = [req EXCEPT ![r] =
              IF denied
              THEN [@ EXCEPT !.pc = "done", !.handler = TRUE, !.reply = None, !.facilitator = "",
                             !.score = score,
                             !.actual_price = HandlerBasePrice(rq.route),
                             !.response =
                                into_response(GateError("InsufficientReputation", ""),
                                              BadUsd, environ)]
              ELSE [@ EXCEPT !.pc = "counted", !.handler = TRUE, !.reply = None, !.facilitator = "",
                             !.score = score, !.actual_price = price]]
        /\ an' = IF denied THEN an ELSE Analytics_fetch_add(an)

\* get_reputation has the answer of its source (regAns: what the registry
\* call returned, when one was made).  A uint256 that does not fit in 64
\* bits panics the task of the request in as_u64: no response is written.
\* Otherwise cache.set puts the score in the in-process tier and, with a
\* connection, awaits SETEX; without one the handler goes on
Scored(r, regAns) ==
    LET rep == get_reputation_miss(req[r].agent.val, FALSE, regAns)
    IN  /\ memory' = rep.memory
        /\ IF rep.result = "panic"
           THEN /\ req' = [req EXCEPT ![r] =
                     [@ EXCEPT !.pc = "done", !.handler = TRUE, !.reply = None,
                               !.facilitator = "", !.response = NoResponse]]
                /\ an' = an
           ELSE IF redis_conn
           THEN /\ req' = [req EXCEPT ![r] =
                     [@ EXCEPT !.pc = "rep_set", !.handler = TRUE, !.reply = None,
                               !.facilitator = "", !.score = rep.score]]
                /\ an' = an
           ELSE Quoted(r, rep.score, rep.score < 100)

\* get_reputation after the cache gave nothing: the registry is called
\* when one is configured, and the mock table is read otherwise
Missed(r) ==
    IF registry_address.tag = "some"
    THEN /\ req' = [req EXCEPT ![r] =
              [@ EXCEPT !.pc = "registry", !.handler = TRUE, !.reply = None, !.facilitator = ""]]
         /\ UNCHANGED <<memory, an>>
    ELSE Scored(r, RpcErr)

\* paid_handler with an absent identity given the score 0 and run through
\* the same threshold as a named one
paid_handler_anonymousScored(r) ==
    /\ req[r].pc = "handler"
    /\ LET rq == req[r]
           named == rq.agent.tag = "some"
           hit == IF named THEN memory[ReputationKey(rq.agent.val)] ELSE Some(0)
       IN  IF hit.tag = "some"
           THEN Quoted(r, hit.val, hit.val < 100) /\ UNCHANGED memory
           ELSE IF redis_conn
           THEN /\ req' = [req EXCEPT ![r] =
                     [@ EXCEPT !.pc = "rep_get", !.handler = TRUE,
                               !.facilitator = ""]]
                /\ UNCHANGED <<memory, an>>
           ELSE Missed(r)
    /\ UNCHANGED <<environ, x402, chain, acceptedLog, registry_address,
                   redis_conn, redis, vt, hung, pq, tc, mp>>

\* predict_gas / get_mev_opportunities up to their first await: without an
\* identity the handler goes to record_payment directly; with one,
\* get_reputation reads the in-process tier: on a hit the handler goes on
\* to the threshold, the price and record_payment; on a miss GET is sent
\* when there is a connection, and without one the source is asked
paid_handler(r) ==
    /\ req[r].pc = "handler"
    /\ LET rq == req[r]
           named == rq.agent.tag = "some"
           hit == IF named THEN memory[ReputationKey(rq.agent.val)] ELSE Some(-1)
       IN  IF hit.tag = "some"
           THEN Quoted(r, hit.val, named /\ hit.val < 100) /\ UNCHANGED memory
           ELSE IF redis_conn
           THEN /\ req' = [req EXCEPT ![r] =
                     [@ EXCEPT !.pc = "rep_get", !.handler = TRUE,
                               !.facilitator = ""]]
                /\ UNCHANGED <<memory, an>>
           ELSE Missed(r)
    /\ UNCHANGED <<environ, x402, chain, acceptedLog, registry_address,
                   redis_conn, redis, vt, hung, pq, tc, mp>>

\* GET is served for the get_reputation of request r (getOk FALSE: it
\* fails); the answer is on its way to the task
reputation_get_served(r) ==
    /\ req[r].pc = "rep_get"
    /\ \E getOk \in BOOLEAN :
         req' = [req EXCEPT ![r] =
                   [@ EXCEPT !.pc = "rep_got",
                             !.reply = IF getOk
                                       THEN redis[ReputationKey(req[r].agent.val)]
                                       ELSE RpcErr]]
    /\ UNCHANGED <<environ, x402, chain, acceptedLog, registry_address,
                   memory, redis_conn, redis, vt, hung, pq, tc, mp, an>>

\* cache.get returns to get_reputation with the reply to GET: a durable hit
\* refills the in-process tier and the handler goes on; on a miss or an
\* error the source is asked
reputation_get_reply(r) ==
    /\ req[r].pc = "rep_got"
    /\ LET reply == req[r].reply
       IN  IF reply.tag = "some"
           THEN /\ memory' = [memory EXCEPT
                                ![ReputationKey(req[r].agent.val)] = reply]
                /\ Quoted(r, reply.val, reply.val < 100)
           ELSE Missed(r)
    /\ UNCHANGED <<environ, x402, chain, acceptedLog, registry_address,
                   redis_conn, redis, vt, hung, pq, tc, mp>>

\* the registry call of get_reputation returns, with an error or with a
\* uint256: the score is set in the cache
registry_reply(r) ==
    /\ req[r].pc = "registry"
    /\ r \notin hung
    /\ \E regAns \in RegistryAnswers : Scored(r, regAns)
    /\ UNCHANGED <<environ, x402, chain, acceptedLog, registry_address,
                   redis_conn, redis, vt, hung, pq, tc, mp>>

\* SETEX is served for the score of request r (setOk FALSE: it fails);
\* the answer is on its way to the task
reputation_set_ex_served(r) ==
    /\ req[r].pc = "rep_set"
    /\ \E setOk \in BOOLEAN :
         redis' = IF setOk
                  THEN [redis EXCEPT ![ReputationKey(req[r].agent.val)] =
                                        Some(req[r].score)]
                  ELSE redis
    /\ req' = [req EXCEPT ![r] = [@ EXCEPT !.pc = "rep_stored"]]
    /\ UNCHANGED <<environ, x402, chain, acceptedLog, registry_address,
                   memory, redis_conn, vt, hung, pq, tc, mp, an>>

\* cache.set returns to get_reputation (an error of SETEX is logged), which
\* returns the score: the handler goes on to the threshold, the price and
\* record_payment
reputation_set_reply(r) ==
    /\ req[r].pc = "rep_stored"
    /\ Quoted(r, req[r].score, req[r].score < 100)
    /\ UNCHANGED <<environ, x402, chain, acceptedLog, registry_address,
                   memory, redis_conn, redis, vt, hung, pq, tc, mp>>

\* the two counter increments of record_payment have returned: the key is
\* built from payments_total as it is now and the record (the price in
\* req[r].actual_price, the endpoint, the payer) is put under it in the
\* in-process tier; with a connection cache.set awaits SETEX
increment_reply(r) ==
    /\ req[r].pc = "counted"
    /\ req' = [req EXCEPT ![r] =
                 [@ EXCEPT !.pc = IF redis_conn THEN "rec_set" ELSE "payload",
                           !.payment_key = IF redis_conn THEN payment_key(an)
                                           ELSE 0]]
    /\ an' = Analytics_set_memory(an, payment_key(an))
    /\ UNCHANGED <<environ, x402, chain, acceptedLog, registry_address,
                   memory, redis_conn, redis, vt, hung, pq, tc, mp>>

\* SETEX is served for the record of request r (setOk FALSE: it fails,
\* which leaves the record out of the durable tier and is logged) and
\* record_payment returns: the handler asks for its payload
record_set_ex_served(r) ==
    /\ req[r].pc = "rec_set"
    /\ \E setOk \in BOOLEAN :
         an' = Analytics_set_ex(an, req[r].payment_key, setOk)
    /\ req' = [req EXCEPT ![r] = [@ EXCEPT !.pc = "payload", !.payment_key = 0]]
    /\ UNCHANGED <<environ, x402, chain, acceptedLog, registry_address,
                   memory, redis_conn, redis, vt, hung, pq, tc, mp>>

\* the prediction cache as the payload of the gas route can find it:
\* empty, or holding a prediction that is read back
PayloadCaches ==
    LET empty == [x \in CacheKeys |-> None]
    IN  { [now |-> 0, redis_conn |-> FALSE, redis |-> empty, memory |-> m] :
            m \in { empty,
                    [empty EXCEPT ![PredictionKey] =
                        Entry(GasPrediction(19, "one"), 0, MemoryTimeToLive)] } }

\* what the chain answers to the payload of the gas route: the latest
\* block number, then the blocks of the window
PayloadChains ==
    { [latest |-> RpcErr, answers |-> BlockPattern(0, 20, "err")],
      [latest |-> Some(19), answers |-> BlockPattern(0, 0, "ok")],
      [latest |-> Some(19), answers |-> BlockPattern(0, 20, "err")],
      [latest |-> Some(19), answers |-> BlockPattern(0, 20, "none")] }

\* the payload of a route as a Result: get_gas_prediction for the gas
\* route; for the mev route the snapshot of the buffer and its analysis,
\* which have no error
Payload(route, c, ch) ==
    IF route = "gas"
    THEN LET out == get_gas_prediction(c, TRUE, TRUE, ch.latest, ch.answers, 30, TRUE)
         IN  [result |-> out.result, kind |-> out.kind]
    ELSE [result |-> "ok", kind |-> ""]

\* the payload has returned: Ok is the 200 answer, an error is answered as
\* into_response maps it
payload_reply(r) ==
    /\ req[r].pc = "payload"
    /\ r \notin hung
    /\ \E c \in PayloadCaches, ch \in PayloadChains :
       \E out \in {Payload(req[r].route, c, ch)} :
         req' = [req EXCEPT ![r] =
                   [@ EXCEPT !.pc = "done",
                             !.response =
                                IF out.result = "ok"
                                THEN Response(200, "", NoInstructions)
                                ELSE into_response(GateError(out.kind, ""),
                                                   BadUsd, environ)]]
    /\ UNCHANGED <<environ, x402, chain, acceptedLog, registry_address,
                   memory, redis_conn, redis, vt, hung, pq, tc, mp, an>>

\* the response has been sent; the connection takes the next request
Respond(r) ==
    /\ req[r].pc = "done"
    /\ req' = [req EXCEPT ![r] = IdleRequest]
    /\ UNCHANGED <<environ, x402, chain, acceptedLog, registry_address,
                   memory, redis_conn, redis, vt, hung, pq, tc, mp, an>>

\* an entry of the in-process tier, a score or a payment record, is gone:
\* it has reached the 60 s the tier keeps an entry for, or the tier, which
\* holds at most 1000 entries, has dropped it.  The clock runs whatever
\* the requests are doing.
ExpireMemory(tier, k) ==
    /\ IF tier = "reputation"
       THEN /\ memory[k].tag = "some"
            /\ memory' = [memory EXCEPT ![k] = None]
            /\ an' = an
       ELSE /\ k \in an.memory
            /\ an' = [an EXCEPT !.memory = @ \ {k}]
            /\ memory' = memory
    /\ UNCHANGED <<environ, x402, chain, req, acceptedLog, registry_address,
                   redis_conn, redis, vt, hung, pq, tc, mp>>

\* an entry of the durable tier reaches the ttl it was stored with: an
\* hour for a score, 30 days for a payment record
ExpireRedis(tier, k) ==
    /\ IF tier = "reputation"
       THEN /\ redis[k].tag = "some"
            /\ redis' = [redis EXCEPT ![k] = None]
            /\ an' = an
       ELSE /\ k \in an.redis
            /\ an' = [an EXCEPT !.redis = @ \ {k}]
            /\ redis' = redis
    /\ UNCHANGED <<environ, x402, chain, req, acceptedLog, registry_address,
                   memory, redis_conn, vt, hung, pq, tc, mp>>

Next ==
    \/ \E r \in Requests : x402_middleware_layer(r)
    \/ \E r \in Requests : get_transaction_receipt_reply(r)
    \/ \E r \in Requests : get_transaction_reply(r)
    \/ \E r \in Requests : report_to_facilitator_reply(r)
    \/ \E r \in Requests : call_hangs(r)
    \/ \E r \in Requests : paid_handler(r)
    \/ \E r \in Requests : reputation_get_served(r)
    \/ \E r \in Requests : reputation_get_reply(r)
    \/ \E r \in Requests : registry_reply(r)
    \/ \E r \in Requests : reputation_set_ex_served(r)
    \/ \E r \in Requests : reputation_set_reply(r)
    \/ \E r \in Requests : increment_reply(r)
    \/ \E r \in Requests : record_set_ex_served(r)
    \/ \E r \in Requests : payload_reply(r)
    \/ \E r \in Requests : Respond(r)
    \/ \E k \in AgentKeys : ExpireMemory("reputation", k)
    \/ \E k \in PaymentKeys : ExpireMemory("payment", k)
    \/ \E k \in AgentKeys : ExpireRedis("reputation", k)
    \/ \E k \in PaymentKeys : ExpireRedis("payment", k)

Spec == Init /\ [][Next]_vars

\* ------------------------------------------------------------------------
\* Properties
\* ------------------------------------------------------------------------

\* the paid handler of request r has been invoked (next.run reached it)
HandlerInvoked(r) == req[r].pc = "handler" \/ req[r].handler

\* the logs of a receipt that carry the Transfer signature and both indexed
\* addresses, by position
TransferPositions(logs) ==
    { i \in 1..Len(logs) :
        /\ Len(logs[i].topics) >= 3
        /\ logs[i].topics[1] = TransferTopic }

\* the value of a 32-byte data field, when it fits in 64 bits
FitsU64(d) == \A i \in 1..(Len(d) - 1) : d[i] = 0
LowWord(d) == IF Len(d) = 0 THEN 0 ELSE d[Len(d)]

\* what the chain says about a hash, check by check
ReceiptOk(c) == c.receipt.tag = "some" /\ c.receipt.val.status = Some(1)
TargetOk(self, c) == c.tx.tag = "some" /\ c.tx.val.to = Some(self.usdc_address)
EventFound(c) == TransferPositions(c.receipt.val.logs) # {}
FirstEvent(c) ==
    LET ps == TransferPositions(c.receipt.val.logs)
    IN  c.receipt.val.logs[CHOOSE i \in ps : \A j \in ps : i <= j]
RecipientOk(self, c) == FirstEvent(c).topics[3].addr = self.recipient_address

\* C1: the paid handler is invoked only for a request whose own proof
\* verify_payment_header accepted: the request carried a decodable proof and
\* its verification, of that proof against the chain, is valid.
C1_HandlerOnlyAfterAcceptance ==
    \A r \in Requests :
        HandlerInvoked(r) =>
            /\ req[r].header.kind = "text"
            /\ req[r].tx_hash \in TxHashes
            /\ req[r].tx_hash = req[r].header.body
            /\ req[r].out.tag = "ok"
            /\ req[r].out.valid
            /\ ReceiptOk(chain[req[r].tx_hash])
            /\ TargetOk(x402[req[r].route], chain[req[r].tx_hash])
            /\ EventFound(chain[req[r].tx_hash])
            /\ RecipientOk(x402[req[r].route], chain[req[r].tx_hash])

C1_Witness ==
    \E r \in Requests :
        /\ req[r].pc = "done"
        /\ req[r].handler
        /\ req[r].response.status = 200

\* C2: an accepted verification has a decoded amount of at least the
\* expected charge: amount >= cents of the configured price * 10_000.
C2_AcceptedAmountCoversCharge ==
    (vt.out.tag = "ok" /\ vt.out.valid) =>
        /\ vt.out.amount.hi = 0
        /\ vt.out.amount.lo >= Hundredths(vt.self.expected_amount_usd) * 10000

\* C3: a proof is accepted only if the receipt exists and reports success,
\* the transaction's target is the asset contract, and the transfer event
\* the decision rests on (the first one of the receipt) names the
\* configured recipient.
C3_AcceptedOnlyIfChainChecksPass ==
    (vt.out.tag = "ok" /\ vt.out.valid) =>
        /\ vt.receiptAns.tag = "some"
        /\ vt.receiptAns.val.status = Some(1)
        /\ vt.txAns.tag = "some"
        /\ vt.txAns.val.to = Some(vt.self.usdc_address)
        /\ TransferPositions(vt.receiptAns.val.logs) # {}
        /\ LET ps == TransferPositions(vt.receiptAns.val.logs)
               first == CHOOSE i \in ps : \A j \in ps : i <= j
               ev == vt.receiptAns.val.logs[first]
           IN  /\ ev.topics[3].addr = vt.self.recipient_address
               /\ vt.out.payer = ev.topics[2].addr

C3_Witness ==
    /\ vt.out.tag = "ok"
    /\ vt.out.valid
    /\ Len(vt.receiptAns.val.logs) = 2
    /\ TransferPositions(vt.receiptAns.val.logs) = {2}

\* C4: a successful transaction to the asset contract whose receipt holds,
\* at any position, a transfer event of the asset to the configured
\* recipient for at least the required amount is accepted.
C4_PayingCallerAccepted ==
    ( /\ vt.out.tag # "pending"
      /\ vt.self.expected_amount_usd.ok
      /\ vt.receiptAns.tag = "some"
      /\ vt.receiptAns.val.status = Some(1)
      /\ vt.txAns.tag = "some"
      /\ vt.txAns.val.to = Some(vt.self.usdc_address)
      /\ \E i \in TransferPositions(vt.receiptAns.val.logs) :
            LET ev == vt.receiptAns.val.logs[i]
            IN  /\ ev.address = vt.self.usdc_address
                /\ ev.topics[3].addr = vt.self.recipient_address
                /\ FitsU64(ev.data)
                /\ LowWord(ev.data) >=
                       Hundredths(vt.self.expected_amount_usd) * 10000 )
    => (vt.out.tag = "ok" /\ vt.out.valid)

\* the reason the gate must report for a decoded proof when no provider
\* call fails: that of the first check, in the order receipt and status,
\* target, transfer event, recipient, amount, that the chain data fails
EarliestFailure(self, c) ==
    IF c.receipt.tag = "none" THEN "Transaction not found"
    ELSE IF c.receipt.val.status # Some(1) THEN "Transaction failed"
    ELSE IF ~TargetOk(self, c) THEN "Transaction not to USDC contract"
    ELSE IF ~EventFound(c) THEN "No USDC transfer found in transaction"
    ELSE IF ~RecipientOk(self, c) THEN "Payment to wrong address"
    ELSE "Insufficient payment"

\* C5: a rejected request reports the earliest failing check, made no chain
\* call for a missing or malformed proof, one chain call when the receipt
\* check failed, and two otherwise.
C5_EarliestFailureReported ==
    \A r \in Requests :
        (req[r].pc = "done" /\ req[r].out.tag = "err" /\ ~req[r].handler) =>
            LET rq == req[r]
                self == x402[rq.route]
            IN  IF rq.header.kind # "text"
                THEN rq.out.kind = "PaymentRequired" /\ rq.chainCalls = 0
                ELSE IF rq.tx_hash = ""
                THEN rq.out.kind = "InvalidPaymentProof" /\ rq.chainCalls = 0
                ELSE IF rq.out.reason = "RPC error"
                THEN rq.chainCalls \in {1, 2}
                          /\ (rq.chainCalls = 2 => ReceiptOk(chain[rq.tx_hash]))
                ELSE /\ rq.out.reason = EarliestFailure(self, chain[rq.tx_hash])
                     /\ rq.chainCalls =
                            IF ReceiptOk(chain[rq.tx_hash]) THEN 2 ELSE 1
                     /\ rq.reports = 0

C5_Witness ==
    \E r \in Requests :
        /\ req[r].pc = "done"
        /\ req[r].out.reason = "Transaction not to USDC contract"
        /\ req[r].chainCalls = 2
        /\ ~RecipientOk(x402[req[r].route], chain[req[r].tx_hash])

\* C6: a request without a proof ends with PaymentRequired, made no chain
\* call, and its response carries instructions with the route's amount, the
\* recipient the gate checks transfers against and the header the gate reads.
C6_ChallengeForMissingProof ==
    \A r \in Requests :
        (req[r].pc = "done" /\ payment_header(req[r].header).tag = "none") =>
            /\ req[r].out.kind = "PaymentRequired"
            /\ req[r].chainCalls = 0
            /\ req[r].response.status = 402
            /\ req[r].response.payment_instructions.present
            /\ req[r].response.payment_instructions.amount = RoutePrice(req[r].route)
            /\ Address_from_str(req[r].response.payment_instructions.recipient)
                   = x402[req[r].route].recipient_address
            /\ req[r].response.payment_instructions.header = XPaymentHeader

C6_Witness ==
    \E r \in Requests :
        /\ req[r].pc = "done"
        /\ req[r].route = "gas"
        /\ req[r].header.kind = "absent"
        /\ req[r].response.payment_instructions.amount = Usd(0, 1)

\* the amount the gate of a route requires, in millionths of a dollar
GateRequiredAmount(route) ==
    parse_usd_to_cents(x402[route].expected_amount_usd).cents * 10000

\* C7: for every caller identity the amount the gate required of a served
\* request equals the price the oracle quotes for the caller's trust score
\* and the route's base price.
C7_GateRequiresQuotedPrice ==
    \A r \in Requests :
        (req[r].pc = "done" /\ req[r].handler /\ req[r].agent.tag = "some"
            /\ req[r].score >= 100) =>
            /\ req[r].actual_price
                   = calculate_price(HandlerBasePrice(req[r].route), req[r].score)
            /\ GateRequiredAmount(req[r].route) = req[r].actual_price

\* C8: for a caller whose trust score is below 100 no verification is
\* accepted and no settlement report is sent.
C8_DeniedCallerNeverAccepted ==
    \A r \in Requests :
        (req[r].agent.tag = "some" /\ req[r].score >= 0 /\ req[r].score < 100) =>
            /\ ~req[r].out.valid
            /\ req[r].reports = 0

\* C9: no record of consumed proofs: once a proof has been accepted on a
\* route, every request with that proof on that route whose verification
\* got its answers from the provider is accepted as well.
C9_AcceptedProofAcceptedAgain ==
    \A r \in Requests :
        ( /\ req[r].pc \in {"report", "handler", "rep_get", "rep_got", "registry",
                            "rep_set", "rep_stored", "counted", "rec_set",
                            "payload", "done"}
          /\ req[r].tx_hash \in TxHashes
          /\ req[r].out.reason # "RPC error"
          /\ <<req[r].route, req[r].tx_hash>> \in acceptedLog )
        => (req[r].out.tag = "ok" /\ req[r].out.valid)

C9_Witness ==
    \E r1, r2 \in Requests :
        /\ r1 # r2
        /\ req[r1].route = req[r2].route
        /\ req[r1].tx_hash = req[r2].tx_hash
        /\ req[r1].pc = "done" /\ req[r1].response.status = 200
        /\ req[r2].pc = "handler" /\ req[r2].out.valid

\* C10: whatever the facilitator answers to the settlement report, the
\* request leaves the report step for the handler with the accepted
\* verification unchanged.
C10_ReportFailureKeepsDecision ==
    [][\A r \in Requests :
          (req[r].pc = "report" /\ req'[r] # req[r]) =>
              /\ req'[r].pc = "handler"
              /\ req'[r].out = req[r].out
              /\ req'[r].out.tag = "ok"
              /\ req'[r].out.valid]_vars

C10_Witness ==
    \E r \in Requests :
        /\ req[r].pc = "handler"
        /\ req[r].facilitator = "transport_error"
        /\ req[r].out.valid

\* the steps request r can take by itself or on an answer it is waiting for
RequestStep(r) ==
    \/ get_transaction_receipt_reply(r)
    \/ get_transaction_reply(r)
    \/ report_to_facilitator_reply(r)
    \/ paid_handler(r)
    \/ reputation_get_served(r)
    \/ reputation_get_reply(r)
    \/ registry_reply(r)
    \/ reputation_set_ex_served(r)
    \/ reputation_set_reply(r)
    \/ increment_reply(r)
    \/ record_set_ex_served(r)
    \/ payload_reply(r)
    \/ Respond(r)

\* C11: an accepted request goes on to its handler without waiting for the
\* facilitator: while the settlement report is outstanding, answered or
\* not, the handler can run.
C11_ReportOffResponsePath ==
    \A r \in Requests :
        (req[r].out.tag = "ok" /\ req[r].pc = "report") => ENABLED paid_handler(r)

\* the state of the gate for a request
Phase(rq) ==
    IF rq.pc = "idle" THEN "AwaitingProof"
    ELSE IF rq.pc \in {"receipt", "tx"} THEN "Verifying"
    ELSE IF rq.out.tag = "ok" THEN "Accepted"
    ELSE IF rq.out.tag = "err" THEN "Rejected"
    ELSE "Faulted"

\* C12: a request is AwaitingProof before the gate has looked at it, is
\* Verifying only with a proof present, and has ended in Accepted or in
\* Rejected, never both, when the gate is done with it.
C12_GateStateMachine ==
    \A r \in Requests :
        /\ Phase(req[r]) = "AwaitingProof" => req[r] = IdleRequest
        /\ Phase(req[r]) = "Verifying" =>
               (req[r].tx_hash \in TxHashes /\ req[r].out.tag = "pending")
        /\ Phase(req[r]) \notin {"AwaitingProof", "Verifying"} =>
               /\ Phase(req[r]) \in {"Accepted", "Rejected"}
               /\ (Phase(req[r]) = "Accepted") = req[r].out.valid
               /\ Phase(req[r]) = "Rejected" =>
                      (~HandlerInvoked(r) /\ req[r].response # NoResponse)

\* C13: a request waiting on an outbound call that is never answered can
\* still move on (the call times out), and it does not keep another
\* request from moving.
C13_HungCallTimesOut ==
    \A r \in Requests :
        r \in hung =>
            /\ ENABLED RequestStep(r)
            /\ \A q \in Requests \ {r} :
                   (q \notin hung /\ req[q].pc # "idle") => ENABLED RequestStep(q)

\* the decisions verify_payment_header can reach for a request taken alone:
\* one per way the provider's two calls can succeed or fail
SoloDecisions(rq) ==
    IF payment_header(rq.header).tag = "none"
    THEN {GateError("PaymentRequired", "")}
    ELSE IF H256_from_str(trim_start_matches_0x(rq.header)).tag = "none"
    THEN {GateError("InvalidPaymentProof", "Invalid tx hash")}
    ELSE { ValidOrError(verify_transaction(x402[rq.route], ra, ta)) :
             ra \in {chain[rq.tx_hash].receipt, RpcErr},
             ta \in {chain[rq.tx_hash].tx, RpcErr} }

\* C14: whatever the other request does in between, the decision of a
\* request is one that verifying its proof alone against the chain gives.
C14_DecisionIndependentOfOthers ==
    \A r \in Requests :
        req[r].out.tag # "pending" => req[r].out \in SoloDecisions(req[r])

C14_Witness ==
    \E r1, r2 \in Requests :
        /\ req[r1].pc = "tx" /\ req[r1].tx_hash = "h1"
        /\ ReceiptOk(chain["h1"]) /\ TargetOk(x402[req[r1].route], chain["h1"])
        /\ req[r2].pc = "done" /\ req[r2].tx_hash = "h2"
        /\ req[r2].out.reason = "Transaction not found"

\* C15: calculate_price puts every score in exactly one tier: 0..99 is
\* denied (the sentinel), 100..500 pays the base price, 501..1000 pays 0.8
\* of it, 1001 and above pays 0.5 of it.
C15_TierBoundaries ==
    pq.p1 # -1 =>
        LET s == pq.s1
            b == pq.base_price
            Full(p) == p = b
            Discounted(p) == p # F64Max /\ 10 * p = 8 * b
            Preferred(p) == p # F64Max /\ 10 * p = 5 * b
        IN  /\ (pq.p1 = F64Max) <=> (s <= 99)
            /\ Full(pq.p1) <=> (100 <= s /\ s <= 500)
            /\ Discounted(pq.p1) <=> (501 <= s /\ s <= 1000)
            /\ Preferred(pq.p1) <=> (1001 <= s)
            /\ (pq.s2 = 99 => pq.p2 = F64Max)
            /\ (pq.s2 \in {100, 500} => Full(pq.p2))
            /\ (pq.s2 \in {501, 1000} => Discounted(pq.p2))
            /\ (pq.s2 = 1001 => Preferred(pq.p2))

C15_Witness ==
    /\ pq.s1 = 500 /\ pq.p1 = 100000
    /\ pq.s2 = 501 /\ pq.p2 = 80000

\* C16: the quote never rises with the score: of two scores the lower one
\* is quoted at least the price of the higher one, the denied tier included.
C16_PriceMonotone ==
    pq.p1 # -1 =>
        /\ (pq.s1 < pq.s2 => pq.p1 >= pq.p2)
        /\ (pq.s2 < pq.s1 => pq.p2 >= pq.p1)

C16_Witness ==
    /\ pq.s1 = 1002 /\ pq.s2 = 1000
    /\ pq.p1 = 5000 /\ pq.p2 = 8000

\* what the tiers held for the key when the latest call looked (the tiers
\* hold live entries only): the in-process entry, else the durable entry
\* when GET is answered; None on a miss and on a failed durable call
CacheGave ==
    IF tc.last.memory.tag = "some" THEN Some(tc.last.memory.val)
    ELSE IF tc.redis_conn /\ tc.last.getOk /\ tc.last.redis.tag = "some"
    THEN Some(tc.last.redis.val)
    ELSE None

\* what CacheService::get gave the latest call: the in-process entry it
\* read, else the text GET answered with; None on a miss in both tiers, on
\* a failed GET and without a connection
CacheAnswer ==
    IF tc.last.memory.tag = "some" THEN Some(tc.last.memory.val)
    ELSE IF tc.last.reply.tag = "some" THEN Some(tc.last.reply.val)
    ELSE None

\* C17: get_reputation never fails, and the score comes from the cache,
\* else from the registry, else, the registry call failing too, from the
\* static table, else it is the default.
C17_FallbackOrder ==
    tc.last.op = "get_reputation" =>
        LET a == tc.last.agent
            answered == registry_address.tag = "some" /\ tc.last.regAns.tag = "some"
        IN  /\ tc.last.result = "ok"
            /\ tc.last.score =
                  IF CacheAnswer.tag = "some" THEN CacheAnswer.val
                  ELSE IF answered THEN tc.last.regAns.val.lo
                  ELSE IF mock_reputations(a).tag = "some" THEN mock_reputations(a).val
                  ELSE DefaultReputation
            /\ (CacheAnswer.tag = "none" /\ answered) => tc.last.regAns.val.hi = 0

\* the latest fetch of the key's score is less than an hour old
FetchedWithinTheHour(w, now) == w.tag = "some" /\ now < w.at + 3600

\* C18: for an hour after a score was fetched get_reputation returns it
\* from the cache, and after the hour it goes to the source again.
C18_CachedForAnHour ==
    (tc.last.op = "get_reputation" /\ tc.last.solo) =>
        /\ FetchedWithinTheHour(tc.last.written, tc.now) =>
               (tc.last.src = "cache" /\ tc.last.score = tc.last.written.val)
        /\ tc.last.src = "cache" => FetchedWithinTheHour(tc.last.written, tc.now)

\* C19: a request without an identity is not denied for reputation and is
\* priced at the base price of its route, and verify_access lets an absent
\* identity in whatever the threshold.
C19_AnonymousStandardPrice ==
    /\ \A r \in Requests :
          (req[r].pc = "done" /\ req[r].handler /\ req[r].agent.tag = "none") =>
              /\ req[r].response.status # 403
              /\ req[r].actual_price = HandlerBasePrice(req[r].route)
    /\ \A min_reputation \in {0, 100, 1001, F64Max} :
          verify_access(None, min_reputation, TRUE, TRUE, RpcErr).allowed

C19_Witness ==
    \E r \in Requests :
        /\ req[r].pc = "done" /\ req[r].handler /\ req[r].agent.tag = "none"
        /\ req[r].route = "mev"
        /\ req[r].response.status = 200
        /\ req[r].actual_price = 100000

\* C20: get never returns a value once the ttl given to the set that wrote
\* it has elapsed.
C20_NoReadPastTtl ==
    (tc.last.op = "get" /\ tc.last.val.tag = "some") =>
        /\ tc.last.written.tag = "some"
        /\ tc.now < tc.last.written.at + tc.last.written.ttl

\* the receipt the chain holds for the proof of a request
HeldReceipt(rq) == chain[rq.tx_hash].receipt

\* C26: a request whose verification met an RPC error is answered with an
\* upstream error, whose code is none of the codes of a missing proof, a
\* malformed proof and a failed verification check.
C26_RpcErrorHasItsOwnCode ==
    \A r \in Requests :
        (req[r].pc = "done" /\ req[r].out.tag = "err"
           /\ req[r].out.reason = "RPC error") =>
            /\ req[r].response.error_code = "UPSTREAM_ERROR"
            /\ req[r].response.error_code \notin
                   {"PAYMENT_REQUIRED", "INVALID_PAYMENT_PROOF",
                    "PAYMENT_VERIFICATION_FAILED"}

\* C27: a request is not rejected for a failed receipt fetch when the chain
\* holds the receipt of its proof, which a second source would have returned.
C27_ReceiptFromSecondary ==
    \A r \in Requests :
        (req[r].pc = "done" /\ req[r].tx_hash # ""
           /\ HeldReceipt(req[r]).tag = "some") =>
            ~(req[r].out.tag = "err" /\ req[r].out.reason = "RPC error"
                /\ req[r].chainCalls = 1)

\* C21: a get after a set of the same key by this instance, no other
\* instance having written it and no other call running meanwhile, returns
\* the value set while the ttl of the set has not elapsed and None once it
\* has, the durable tier answering or not.
C21_RoundTrip ==
    (tc.last.op = "get" /\ tc.last.solo /\ ~tc.others
       /\ tc.last.written.tag = "some") =>
        IF tc.now < tc.last.written.at + tc.last.written.ttl
        THEN tc.last.val = Some(tc.last.written.val)
        ELSE tc.last.val = None

\* the in-process entry of the key after the latest call
MemoryNow == tc.memory[tc.key]

\* the entry, as the latest call found it, is live and parses as the type
\* read under the key: the tier answers with it
Parsed(entry) ==
    Live(entry, tc.now) /\ serde_json_from_str(tc.key, entry.val).tag = "some"

\* the tier answered the latest call with an entry that parses as the type
\* read under the key (found: the in-process entry the call read, or the
\* reply to its GET)
Answers(found) ==
    found.tag = "some" /\ serde_json_from_str(tc.key, found.val).tag = "some"

\* a get made in the present state is answered by the in-process tier with
\* the value v, whatever the durable tier would do
NextGetServedInProcess(v) ==
    \A redisOk \in BOOLEAN, admitted \in BOOLEAN :
        LET next == CacheService_get_at(tc, tc.key, redisOk, admitted)
        IN  ~next.asked /\ next.val = v

\* C22 as stated: get answers from the in-process tier when it holds the
\* key and then leaves the durable tier alone; on an in-process miss it
\* asks the durable tier, and after a durable hit the in-process tier holds
\* that value when get returns, so that the next get is answered without
\* the durable tier; a miss in both tiers gives None, and get has written
\* nothing (the in-process tier holds what it held, or has dropped it,
\* unless another call wrote it meanwhile).
C22_TwoTierRead ==
    tc.last.op = "get" =>
        /\ Answers(tc.last.memory) =>
              /\ tc.last.val = serde_json_from_str(tc.key, tc.last.memory.val)
              /\ ~tc.last.asked
              /\ MemoryNow = tc.last.memory
        /\ ~Answers(tc.last.memory) => (tc.last.asked = tc.redis_conn)
        /\ (~Answers(tc.last.memory) /\ Answers(tc.last.reply)) =>
              /\ tc.last.val = serde_json_from_str(tc.key, tc.last.reply.val)
              /\ MemoryNow = Entry(tc.last.reply.val, tc.now, MemoryTimeToLive)
              /\ NextGetServedInProcess(tc.last.val)
        /\ (~Answers(tc.last.memory) /\ ~Answers(tc.last.reply)) =>
              /\ tc.last.val = None
              /\ tc.last.solo => MemoryNow \in {tc.last.memory, None}

\* C22 amended: as stated, but for the capacity of the in-process tier:
\* after a durable hit the in-process tier holds the value when get
\* returns, and the next get is answered without the durable tier, if the
\* tier, which holds at most 1000 entries, took the entry; if it did not,
\* the value is returned all the same and the tier is left without the key.
C22_TwoTierReadBounded ==
    tc.last.op = "get" =>
        /\ Answers(tc.last.memory) =>
              /\ tc.last.val = serde_json_from_str(tc.key, tc.last.memory.val)
              /\ ~tc.last.asked
              /\ MemoryNow = tc.last.memory
        /\ ~Answers(tc.last.memory) => (tc.last.asked = tc.redis_conn)
        /\ (~Answers(tc.last.memory) /\ Answers(tc.last.reply)) =>
              /\ tc.last.val = serde_json_from_str(tc.key, tc.last.reply.val)
              /\ tc.last.kept =>
                    /\ MemoryNow = Entry(tc.last.reply.val, tc.now, MemoryTimeToLive)
                    /\ NextGetServedInProcess(tc.last.val)
              /\ ~tc.last.kept => MemoryNow = None
        /\ (~Answers(tc.last.memory) /\ ~Answers(tc.last.reply)) =>
              /\ tc.last.val = None
              /\ tc.last.solo => MemoryNow \in {tc.last.memory, None}

\* a durable hit whose entry reached its ttl while the reply was on its
\* way: the value is returned and the in-process tier holds it
C22_Witness ==
    /\ tc.last.op = "get"
    /\ tc.last.memory.tag = "none"
    /\ tc.last.asked
    /\ tc.last.reply.tag = "some"
    /\ tc.last.val = Some(tc.last.reply.val)
    /\ tc.last.kept
    /\ tc.redis[tc.key] = None
    /\ MemoryNow = Entry(tc.last.reply.val, tc.now, MemoryTimeToLive)

\* the durable tier did not serve the latest call
DurableDown == ~tc.redis_conn \/ ~tc.last.redisOk

\* what the chain answers to a prediction asked for with the durable tier
\* down: an error or the number of the latest block of a chain of 5
\* blocks, and over the window every block, every block but one, or
\* nothing but errors
DownLatest == {RpcErr, Some(4)}
DownPatterns ==
    { BlockPattern(0, 0, "ok"), BlockPattern(0, 1, "none"), BlockPattern(0, 20, "err") }

\* a prediction asked for in the present state, with the durable tier
\* absent or failing on each call, fails for the chain only, the
\* in-process tier keeping what is inserted or not
PredictionFailsForChainOnly ==
    \A latest \in DownLatest :
    \A answers \in IF latest.tag = "err"
                   THEN {BlockPattern(0, 20, "err")} ELSE DownPatterns :
    \A base_fee \in IF answers = BlockPattern(0, 0, "ok") THEN BaseFees ELSE {30} :
    \A admitted \in BOOLEAN :
    \E out \in {get_gas_prediction(tc, ~tc.redis_conn, ~tc.redis_conn,
                                   latest, answers, base_fee, admitted)} :
        out.result = "err" =>
           /\ out.kind # "CacheError"
           /\ \/ latest.tag = "err"
              \/ fetch_blocks(saturating_sub(latest.val, WindowBack),
                              latest.val, answers).blocks = <<>>

\* the latest call, a reputation lookup, ended in as_u64 on an answer of
\* the registry that does not fit in 64 bits
RegistryAnswerTooWide ==
    /\ tc.last.result = "panic"
    /\ registry_address.tag = "some"
    /\ tc.last.regAns.tag = "some"
    /\ ~as_u64_fits(tc.last.regAns.val)

\* C23: with the durable tier absent or failing, get and set return no
\* error, ping returns false, a reputation lookup returns a score (it ends
\* otherwise on an answer of the registry only, whatever the cache does)
\* and a gas prediction fails only when the chain gives no block.
C23_DegradedModeNeverErrors ==
    /\ tc.last.op \in {"get", "set"} => tc.last.result = "ok"
    /\ tc.last.op = "get_reputation" =>
          /\ tc.last.result = "ok" \/ RegistryAnswerTooWide
          /\ tc.last.result = "ok" => tc.last.score \in Nat
    /\ (tc.last.op = "ping" /\ DurableDown) =>
          (tc.last.result = "ok" /\ tc.last.val = FALSE)
    /\ (tc.key = PredictionKey /\ tc.last.op \in {"get", "set"}) =>
          PredictionFailsForChainOnly

C23_Witness ==
    /\ tc.last.op = "set"
    /\ tc.redis_conn /\ ~tc.last.setOk
    /\ tc.last.result = "ok"
    /\ tc.last.redis.tag = "none"
    /\ tc.redis[tc.key].tag = "none"
    /\ MemoryNow.tag = "some"

\* C24: an increment that was not applied, the durable tier being absent or
\* the call failing, does not return a success value.
C24_CountedOrNot ==
    (tc.last.op = "increment" /\ DurableDown) => tc.last.result # "ok"

\* C25: a get made while the durable tier answers and holds an unexpired
\* entry of the key returns the value of that entry.
C25_DurableAuthoritative ==
    (tc.last.op = "get" /\ tc.redis_conn /\ tc.last.getOk
       /\ Live(tc.last.redis, tc.now)) =>
        tc.last.val = Some(tc.last.redis.val)

\* C28: a prediction computed from the chain uses at least 10 and at most
\* 20 blocks, and a call that could fetch fewer than 10 blocks returns an
\* error and stores nothing.
C28_NeverFromFewerThanTen ==
    tc.last.op = "get_gas_prediction" =>
        /\ (tc.last.result = "ok" /\ tc.last.src = "chain") =>
              (tc.last.used >= MinBlocks /\ tc.last.used <= WindowBack + 1)
        /\ (tc.last.src # "cache" /\ tc.last.used < MinBlocks) =>
              (tc.last.result = "err" /\ ~tc.last.wrote)

\* the text a prediction is stored as
Stored(prediction) == serde_json_to_string(PredictionKey, prediction)

\* C29: a call made while the cache holds an entry under gas:prediction
\* returns that entry as it is, makes no chain call and no set; a call
\* that misses and succeeds has set the snapshot it returns under
\* gas:prediction with ttl 12 (the in-process tier holds it unless it
\* dropped it since, the durable tier when SETEX succeeded).  The code
\* breaks it on the snapshots it stores with the confidence null: the
\* cache holds them and no call reads them back.
C29_HitReturnsMissStores ==
    (tc.last.op = "get_gas_prediction" /\ tc.last.solo) =>
        /\ CacheGave.tag = "some" =>
              /\ tc.last.result = "ok"
              /\ tc.last.val = CacheGave
              /\ tc.last.calls = 0
              /\ ~tc.last.wrote
              /\ tc.written = tc.last.written
              /\ tc.redis[PredictionKey] \in {tc.last.redis, None}
        /\ (CacheGave.tag = "none" /\ tc.last.result = "ok") =>
              /\ tc.last.val.tag = "some"
              /\ tc.last.calls > 0
              /\ tc.last.wrote
              /\ tc.written.at <= tc.now
              /\ tc.written =
                    Entry(Stored(tc.last.val.val), tc.written.at, PredictionTtl)
              /\ tc.memory[PredictionKey] \in
                    {Entry(Stored(tc.last.val.val), tc.written.at, MemoryTimeToLive),
                     None}
              /\ (tc.last.kept /\ ~tc.redis_conn) =>
                    tc.memory[PredictionKey].tag = "some"
              /\ (tc.redis_conn /\ tc.last.setOk) =>
                    tc.redis[PredictionKey] =
                        Entry(Stored(tc.last.val.val), tc.now, PredictionTtl)

\* C30: a call made more than 12 seconds after the snapshot was stored
\* computes from the chain and does not return the stored snapshot.
C30_FreshWithinTwelve ==
    (tc.last.op = "get_gas_prediction" /\ tc.last.written.tag = "some"
       /\ tc.now > tc.last.written.at + PredictionTtl) =>
        (tc.last.src # "cache" /\ tc.last.calls > 0)

\* the transfer event verify_transaction decodes: the first log of the
\* receipt carrying the transfer signature and three topics
DecodedTransfer ==
    LET ps == TransferPositions(vt.receiptAns.val.logs)
    IN  vt.receiptAns.val.logs[CHOOSE i \in ps : \A j \in ps : i <= j]

\* C34: the transfer event an accepted verification rests on was emitted by
\* the configured asset contract.
C34_EventOfTheAssetContract ==
    (vt.out.tag = "ok" /\ vt.out.valid) =>
        DecodedTransfer.address = vt.self.usdc_address

\* C35: a successful transaction to the asset contract whose decoded
\* transfer pays the configured recipient an amount above 2^64 - 1 is
\* accepted, as any sufficient amount is.
C35_WideAmountAccepted ==
    ( /\ vt.out.tag # "pending"
      /\ vt.self.expected_amount_usd.ok
      /\ vt.receiptAns.tag = "some"
      /\ vt.receiptAns.val.status = Some(1)
      /\ vt.txAns.tag = "some"
      /\ vt.txAns.val.to = Some(vt.self.usdc_address)
      /\ TransferPositions(vt.receiptAns.val.logs) # {}
      /\ DecodedTransfer.address = vt.self.usdc_address
      /\ DecodedTransfer.topics[3].addr = vt.self.recipient_address
      /\ ~FitsU64(DecodedTransfer.data) )
    => (vt.out.tag = "ok" /\ vt.out.valid)

\* C36: a request posts at most one settlement report, and only when every
\* check of its proof passed; the report says verified and carries the
\* proof's hash and the payer and amount of the transfer that was checked;
\* a request rejected for a missing, malformed or refused proof posted none.
C36_OneReportAfterAllChecks ==
    \A r \in Requests :
        /\ req[r].reports <= 1
        /\ req[r].reports = 0 => req[r].report = NoReport
        /\ req[r].reports = 1 =>
              LET c == chain[req[r].tx_hash]
                  self == x402[req[r].route]
              IN  /\ req[r].out.tag = "ok" /\ req[r].out.valid
                  /\ ReceiptOk(c) /\ TargetOk(self, c) /\ EventFound(c)
                  /\ RecipientOk(self, c)
                  /\ req[r].report.verified
                  /\ req[r].report.tx_hash = req[r].header.body
                  /\ req[r].report.payer = FirstEvent(c).topics[2].addr
                  /\ req[r].report.amount = U256_from_big_endian(FirstEvent(c).data)
        /\ (req[r].pc = "done" /\ req[r].out.tag # "ok") => req[r].reports = 0

C36_Witness ==
    \E r \in Requests :
        /\ req[r].pc = "done"
        /\ req[r].reports = 1
        /\ req[r].report.verified
        /\ req[r].report.tx_hash = "h1"
        /\ req[r].report.amount = U256(0, 10000)
        /\ req[r].response.status = 200

\* what the proof of a request paid in the configured asset: the amount of
\* the transfer event its verification rests on when the asset contract
\* emitted it, nothing otherwise
PaidInAsset(rq) ==
    LET ev == FirstEvent(chain[rq.tx_hash])
    IN  IF ev.address = x402[rq.route].usdc_address THEN LowWord(ev.data) ELSE 0

\* C37: a served request has paid, in the asset, at least the price quoted
\* for its caller.
C37_ServedPaidQuotedPrice ==
    \A r \in Requests :
        (req[r].pc = "done" /\ req[r].handler /\ req[r].response.status = 200) =>
            PaidInAsset(req[r]) >= req[r].actual_price

\* C39: a score get_reputation returns after a cache miss, the default of
\* a failed registry call included, has been set under the identity's key
\* with ttl 3600; and a call made by itself while the ttl of the latest
\* set of the key runs returns the score that was set and makes no
\* registry call.
C39_MissIsCachedHitSkipsRegistry ==
    (tc.last.op = "get_reputation" /\ tc.last.result = "ok") =>
        /\ tc.key = ReputationKey(tc.last.agent)
        /\ tc.last.src # "cache" =>
              /\ tc.last.wrote
              /\ tc.last.value = Some(tc.last.score)
              /\ tc.last.ttl = ReputationTtl
        /\ (tc.last.solo /\ Live(tc.last.written, tc.now)) =>
              /\ tc.last.src = "cache"
              /\ tc.last.score = tc.last.written.val
              /\ tc.last.registry_calls = 0

\* C40: a CacheService built while the backend could not be connected is
\* built all the same, and from then on ping returns false, increment
\* returns without counting, and get and set work on the in-process tier
\* alone, the backend holding entries of other instances or not.
C40_NeverConnectsLater ==
    /\ CacheService_new(FALSE).result = "ok"
    /\ ~tc.redis_conn =>
          /\ tc.counter = None
          /\ tc.last.op = "ping" => tc.last.val = FALSE
          /\ tc.last.op = "increment" => tc.last.val = tc.last.delta
          /\ tc.last.op = "get" =>
                /\ ~tc.last.asked
                /\ tc.last.val = IF Parsed(tc.last.memory)
                                 THEN serde_json_from_str(tc.key, tc.last.memory.val)
                                 ELSE None
          /\ tc.last.op \in {"get", "set", "get_reputation"} =>
                tc.redis[tc.key] = tc.last.redis
          /\ (tc.last.op = "set" /\ tc.last.kept) =>
                MemoryNow.val = serde_json_to_string(tc.key, tc.last.val.val)
          /\ (tc.last.op = "set" /\ ~tc.last.kept) => MemoryNow = None

C40_Witness ==
    /\ ~tc.redis_conn
    /\ tc.last.op = "get"
    /\ tc.last.memory.tag = "none"
    /\ tc.last.redis.tag = "some"
    /\ tc.last.val = None
    /\ ~tc.last.asked

\* C33: get_block and get_block_number return the primary's answer without
\* calling the secondary when the primary call succeeds; when it fails they
\* return the secondary's answer, value or error, if a secondary is
\* configured, and the primary's error if none is.
C33_PrimaryThenSecondary ==
    tc.last.op \in {"get_block", "get_block_number"} =>
        /\ tc.last.primary.tag # "err" =>
              (tc.last.val = tc.last.primary /\ tc.last.secondary_calls = 0)
        /\ (tc.last.primary.tag = "err" /\ tc.fallback) =>
              (tc.last.val = tc.last.secondary /\ tc.last.secondary_calls = 1)
        /\ (tc.last.primary.tag = "err" /\ ~tc.fallback) =>
              (tc.last.val = tc.last.primary /\ tc.last.secondary_calls = 0)

C33_Witness ==
    /\ tc.last.op = "get_block"
    /\ tc.fallback
    /\ tc.last.primary.tag = "err"
    /\ tc.last.secondary.tag = "err"
    /\ tc.last.val.from = "secondary"
    /\ tc.last.secondary_calls = 1

\* C31: the buffer never holds more than 100 transactions; outside a write
\* it is the most recent min(n, 100) of the n transactions appended so far,
\* in arrival order; a writer about to append has made room first.
C31_BoundedMostRecent ==
    /\ Len(mp.pending_txs) <= max_pending
    /\ mp.pc \in {"idle", "wait", "evict"} => mp.pending_txs = Window(mp.pushed)
    /\ mp.pc # "idle" => mp.tx = mp.pushed + 1
    /\ mp.pc = "push" =>
          /\ Len(mp.pending_txs) < max_pending
          /\ mp.pending_txs = IF mp.pushed >= max_pending
                              THEN Tail(Window(mp.pushed)) ELSE Window(mp.pushed)

C31_Witness ==
    /\ mp.pc = "idle"
    /\ mp.pushed = max_pending + 1
    /\ Len(mp.pending_txs) = max_pending
    /\ mp.pending_txs[1] = 2
    /\ mp.pending_txs[max_pending] = max_pending + 1

\* C32: a snapshot is the content the buffer had between two writes, those
\* made when it was taken, whatever was written since.
C32_SnapshotOfOneInstant ==
    mp.snapshot.tag = "some" => mp.snapshot.val = Window(mp.snap_at)

C32_Witness ==
    /\ mp.snapshot.tag = "some"
    /\ mp.snap_at = max_pending
    /\ Len(mp.snapshot.val) = max_pending
    /\ mp.pushed = max_pending + 1
    /\ mp.snapshot.val # mp.pending_txs

\* the calls whose record has been set
Recorded == { p \in Calls : an.calls[p].pc \in {"set_ex", "done"} }

\* C38: record_payment calls that have set their records did so under
\* keys that differ from one another, so that the cache holds as many
\* records as calls have set.
C38_DistinctPaymentKeys ==
    /\ \A p, q \in Recorded : p # q => an.calls[p].key # an.calls[q].key
    /\ Cardinality(an.memory) = Cardinality(Recorded)
====
